---------------------------- MODULE Spec2Model ----------------------------
(***************************************************************************)
(* A model of the Pathtracer repository.                                   *)
(*                                                                         *)
(* The repository holds two generations of the renderer: the modular one   *)
(* (renderer.rs with algebra.rs, ggx.rs, sphere.rs, plane.rs, mesh.rs,     *)
(* scene.rs) and the earlier single-file one (main.rs).  Both are          *)
(* modelled; definitions taken from main.rs carry the prefix main_ where   *)
(* the name is also used by the modular generation.                        *)
(*                                                                         *)
(* f32 values are modelled as fixed-point numbers: an integer k stands for *)
(* k / ONE, results are rounded towards zero, magnitudes above FMAX        *)
(* overflow to an infinity, and two NaN values (one per sign bit) absorb   *)
(* every operation, as in IEEE 754.  Signed zeros are not modelled.        *)
(***************************************************************************)
EXTENDS Integers, Sequences, FiniteSets, TLC

VARIABLES
    nanNeg,     \* the sign bit of a NaN an operation generates (set by the build)
    pc,         \* position of the main line of the running program
    \* --- a single intersection query (SpecGeom) ---
    qgen,       \* the generation queried: "renderer" or "main"
    qobjs,      \* the object list
    qro,        \* ray origin
    qrd,        \* ray direction
    qout,       \* the last query and its result
    \* --- a pixel evaluation (Spec) ---
    tgen,       \* the generation running: "renderer" or "main"
    scene_objs, \* the scene's objects
    scene_lights, \* the scene's lights
    camera,     \* the camera arguments
    pixel,      \* <<x, y>> of the pixel evaluated
    spp,        \* configured samples per pixel
    rngStream,  \* the draws the generator handle passed to pixel_color produces
    ambStream,  \* the draws the thread-local generator produces
    rngPos,     \* positions of the two generators in their streams
    stack,      \* the invocations of trace, outermost first
    retv,       \* the value a returned invocation hands to its caller
    acc,        \* the colour accumulated over the samples (col)
    pass,       \* passes of the sample loop completed
    rays,       \* primary rays traced in this evaluation
    rgb,        \* the pixel this evaluation produced
    evalNo,     \* 1 for the first evaluation of the pixel, 2 for the repeated one
    rgb1,       \* the pixel the first evaluation produced
    ev,         \* what the last step of trace did
    \* --- the row-parallel render of main.rs (SpecRender) ---
    task,       \* per row y: the state of its task and of the task's generator
    progress,   \* the position of the progress bar
    rows,       \* per row y: the Vec its task has pushed so far
    pixels,     \* what is left of the collected Vec in the serial write loop
    img,        \* the image: per <<x, y>> its colour and how often it was put
    \* --- loading a scene description (SpecLoad) ---
    file,       \* the parsed scene description and the loader reading it
    loaded,     \* the objects pushed so far
    panic_msg,  \* the message of the panic that ended the load, or ""
    \* --- the progressive render of gpu_renderer.rs (SpecGpu) ---
    overflow_checks, \* the build panics on integer overflow (debug) or wraps (release)
    adapter,    \* the device type of the adapter found
    gpu_scene,  \* the Scene: objects and render settings
    samples_per_dispatch, \* samples per pixel of one dispatch
    num_dispatches, \* the number of dispatches planned
    submitted,  \* samples_per_pixel of the RenderParams of each dispatch submitted
    divisor,    \* the total the accumulated colour was divided by
    obj_i,      \* objects of the scene get_object_data has passed
    gpu_spheres,    \* the sphere buffer
    gpu_planes,     \* the plane buffer
    gpu_tris,       \* the triangle buffer
    scount,     \* spheres copied
    pcount,     \* planes copied
    tcount,     \* triangles copied
    gpu_panic   \* the message of the panic that ended the render, or ""

(***************************************************************************)
(* Evaluation: a let binding evaluates its right-hand side once            *)
(*                                                                         *)
(* The Rust block  { let x = v; e }  is written  The({ e : x \in {v} }).    *)
(* In a chain of bindings the first let is the last line; read upwards.    *)
(***************************************************************************)
The(S) == CHOOSE r \in S : TRUE

(***************************************************************************)
(* f32                                                                     *)
(***************************************************************************)
\* Fixed-point steps per unit: one step is 1e-4, the length epsilon of the code.
ONE == 10000

\* f32::INFINITY; every finite magnitude is below it.
F32_INFINITY == 1000000001

FMAX == F32_INFINITY - 1
PINF == F32_INFINITY
NINF == 0 - F32_INFINITY
PNAN == F32_INFINITY + 1
NNAN == 0 - PNAN

\* The NaN an invalid operation (0/0, inf-inf, 0*inf) generates.
GenNaN == IF nanNeg THEN NNAN ELSE PNAN

IsNaN(x) == x \in {PNAN, NNAN}
IsInf(x) == x \in {PINF, NINF}
IsFinite(x) == The({ a > NINF /\ a < PINF
                   : a \in {x} })

Sgn(x) == IF x < 0 THEN 0 - 1 ELSE 1
Mag(x) == The({ IF a < 0 THEN 0 - a ELSE a
              : a \in {x} })

\* Round a finite integer result into the format (overflow to infinity).
Sat(v) == The({ IF k > FMAX THEN PINF ELSE IF k < 0 - FMAX THEN NINF ELSE k
              : k \in {v} })

FNeg(x) == 0 - x

FAbs(x) == Mag(x)

FAdd(x, y) ==
    The({ IF IsNaN(a) THEN a
        ELSE IF IsNaN(b) THEN b
        ELSE IF IsInf(a) THEN (IF IsInf(b) /\ b # a THEN GenNaN ELSE a)
        ELSE IF IsInf(b) THEN b
        ELSE Sat(a + b)
        : a \in {x}, b \in {y} })

FSub(x, y) == FAdd(x, FNeg(y))

\* a * b / ONE for finite magnitudes, without leaving 32 bits.
MulMag(a, b) ==
    The({ LET ah == p \div ONE
            al == p % ONE
            bh == q \div ONE
            bl == q % ONE
        IN  IF ah > 0 /\ bh > (FMAX \div ONE) \div ah THEN PINF
            ELSE Sat(Sat(Sat(ah * bh * ONE + ah * bl) + al * bh) + (al * bl) \div ONE)
        : p \in {a}, q \in {b} })

FMul(x, y) ==
    The({ IF IsNaN(a) THEN a
        ELSE IF IsNaN(b) THEN b
        ELSE IF IsInf(a) \/ IsInf(b)
             THEN (IF a = 0 \/ b = 0 THEN GenNaN ELSE Sgn(a) * Sgn(b) * PINF)
        ELSE Sgn(a) * Sgn(b) * MulMag(Mag(a), Mag(b))
        : a \in {x}, b \in {y} })

\* The k leading fractional decimal digits of r / b (0 <= r < b).
RECURSIVE DivDigits(_, _, _)
DivDigits(r, b, k) ==
    IF k = 0 THEN 0
    ELSE The({ LET p == IF k = 4 THEN 1000 ELSE IF k = 3 THEN 100 ELSE IF k = 2 THEN 10 ELSE 1
             IN  (r10 \div b) * p + DivDigits(r10 % b, b, k - 1)
             : r10 \in {r * 10} })

\* a * ONE / b for finite magnitudes, b > 0.
RECURSIVE DivMag(_, _)
DivMag(a, b) ==
    The({ IF q > 200000000 THEN DivMag(p \div 10, q \div 10)
        ELSE IF p \div q > FMAX \div ONE THEN PINF
        ELSE Sat((p \div q) * ONE + DivDigits(p % q, q, 4))
        : p \in {a}, q \in {b} })

FDiv(x, y) ==
    The({ IF IsNaN(a) THEN a
        ELSE IF IsNaN(b) THEN b
        ELSE IF IsInf(a) THEN (IF IsInf(b) THEN GenNaN ELSE Sgn(a) * Sgn(b) * PINF)
        ELSE IF IsInf(b) THEN 0
        ELSE IF b = 0 THEN (IF a = 0 THEN GenNaN ELSE Sgn(a) * PINF)
        ELSE Sgn(a) * Sgn(b) * DivMag(Mag(a), Mag(b))
        : a \in {x}, b \in {y} })

\* Floor of the square root of a natural number (Newton's iteration).
RECURSIVE IsqrtIter(_, _)
IsqrtIter(n, x) ==
    The({ IF y >= x THEN x ELSE IsqrtIter(n, y)
        : y \in {(x + n \div x) \div 2} })

Isqrt(n) == The({ IF m < 2 THEN m ELSE IsqrtIter(m, m)
                : m \in {n} })

FSqrt(x) ==
    The({ IF IsNaN(a) THEN a
        ELSE IF a < 0 THEN GenNaN
        ELSE IF a = PINF THEN PINF
        ELSE IF a <= 200000 THEN Isqrt(a * ONE)
        ELSE The({ r * 100 + ((a - r * r) * 100) \div (2 * r)
                 : r \in {Isqrt(a)} })
        : a \in {x} })

\* Comparisons: every comparison with a NaN is false.
FLt(x, y) == The({ ~IsNaN(a) /\ ~IsNaN(b) /\ a < b
                 : a \in {x}, b \in {y} })
FLe(x, y) == The({ ~IsNaN(a) /\ ~IsNaN(b) /\ a <= b
                 : a \in {x}, b \in {y} })
FGt(x, y) == FLt(y, x)
FGe(x, y) == FLe(y, x)

\* f32::max and f32::min return the other operand when one is a NaN.
FMax(x, y) ==
    The({ IF IsNaN(a) THEN b ELSE IF IsNaN(b) THEN a ELSE IF a < b THEN b ELSE a
        : a \in {x}, b \in {y} })
FMin(x, y) ==
    The({ IF IsNaN(a) THEN b ELSE IF IsNaN(b) THEN a ELSE IF b < a THEN b ELSE a
        : a \in {x}, b \in {y} })

\* f32::clamp keeps a NaN.
FClamp(x, lo, hi) ==
    The({ IF IsNaN(a) THEN a ELSE IF a < lo THEN lo ELSE IF a > hi THEN hi ELSE a
        : a \in {x} })

RECURSIVE FPowi(_, _)
FPowi(x, n) == IF n = 0 THEN ONE ELSE FMul(x, FPowi(x, n - 1))

\* f32::total_cmp: -NaN < -inf < finite < +inf < +NaN, the order of the encoding.
total_cmp(x, y) ==
    The({ IF a < b THEN "Less" ELSE IF a > b THEN "Greater" ELSE "Equal"
        : a \in {x}, b \in {y} })

\* f32::partial_cmp: no answer when an operand is a NaN.
partial_cmp(x, y) ==
    The({ IF IsNaN(a) \/ IsNaN(b) THEN "None" ELSE total_cmp(a, b)
        : a \in {x}, b \in {y} })

(***************************************************************************)
(* algebra.rs: Vec3 (a triple of f32)                                      *)
(***************************************************************************)
Vec3(x, y, z) == <<x, y, z>>

scale(a, f) == The({ <<FMul(v[1], s), FMul(v[2], s), FMul(v[3], s)>>
                   : v \in {a}, s \in {f} })

dot(a, b) ==
    The({ FAdd(FAdd(FMul(v[1], w[1]), FMul(v[2], w[2])), FMul(v[3], w[3]))
        : v \in {a}, w \in {b} })

cross(a, b) ==
    The({ << FSub(FMul(v[2], w[3]), FMul(v[3], w[2])),
           FSub(FMul(v[3], w[1]), FMul(v[1], w[3])),
           FSub(FMul(v[1], w[2]), FMul(v[2], w[1])) >>
        : v \in {a}, w \in {b} })

norm(a) == The({ FSqrt(dot(v, v))
               : v \in {a} })

normalize(a) == The({ scale(v, FDiv(ONE, norm(v)))
                    : v \in {a} })

\* self.2.abs() < 0.9999999: the largest value below 1 is ONE - 1.
any_orthonormal(a) ==
    The({ IF FLt(FAbs(v[3]), ONE) THEN <<v[2], FNeg(v[1]), 0>>
        ELSE <<0, FNeg(v[3]), v[2]>>
        : v \in {a} })

add(a, b) == The({ <<FAdd(v[1], w[1]), FAdd(v[2], w[2]), FAdd(v[3], w[3])>>
                 : v \in {a}, w \in {b} })

sub(a, b) == The({ <<FSub(v[1], w[1]), FSub(v[2], w[2]), FSub(v[3], w[3])>>
                 : v \in {a}, w \in {b} })

\* Mul for Vec3: element-wise product.
mul(a, b) == The({ <<FMul(v[1], w[1]), FMul(v[2], w[2]), FMul(v[3], w[3])>>
                 : v \in {a}, w \in {b} })

neg(a) == The({ <<FNeg(v[1]), FNeg(v[2]), FNeg(v[3])>>
              : v \in {a} })

lerp(a, b, t) == The({ add(scale(v, FSub(ONE, s)), scale(w, s))
                     : v \in {a}, w \in {b}, s \in {t} })

ZeroVec == <<0, 0, 0>>
OneVec == <<ONE, ONE, ONE>>

(***************************************************************************)
(* f32: elementary functions                                               *)
(*                                                                         *)
(* ln and exp are computed by range reduction and a short series, to       *)
(* about two fixed-point steps; cos and sin are exact at the multiples of  *)
(* a quarter turn and linear in between.                                   *)
(***************************************************************************)
\* std::f32::consts::PI
PI == 31416

\* ln 2
LN_2 == 6931

\* v * 2^k for an integer v >= 0 (rounded towards zero, saturating).
RECURSIVE Scale2(_, _)
Scale2(v, k) ==
    IF k = 0 \/ v = 0 THEN Sat(v)
    ELSE IF k > 0 THEN (IF v > FMAX \div 2 THEN PINF ELSE Scale2(v * 2, k - 1))
    ELSE Scale2(v \div 2, k + 1)

\* <<m, k>> with ONE <= m < 2 * ONE and x = m * 2^k (x > 0).
RECURSIVE LnNorm(_, _)
LnNorm(m, k) ==
    IF m >= 2 * ONE THEN LnNorm(m \div 2, k + 1)
    ELSE IF m < ONE THEN LnNorm(m * 2, k - 1)
    ELSE <<m, k>>

\* f32::ln
FLn(x) ==
    The({ IF IsNaN(a) THEN a
        ELSE IF a < 0 THEN GenNaN
        ELSE IF a = 0 THEN NINF
        ELSE IF a = PINF THEN PINF
        ELSE The({ The({ The({ The({ mk[2] * LN_2
                   + 2 * (z + z3 \div 3 + FMul(z3, z2) \div 5 + FMul(FMul(z3, z2), z2) \div 7)
                 : z3 \in {FMul(z, z2)} })
                 : z2 \in {FMul(z, z)} })
                 : z \in {FDiv(mk[1] - ONE, mk[1] + ONE)} })
                 : mk \in {LnNorm(a, 0)} })
        : a \in {x} })

\* e^r for 0 <= r < ln 2: the series up to r^6 / 720.
ExpSeries(r) ==
    The({ The({ The({ The({ The({ ONE + r1 + r2 \div 2 + r3 \div 6 + r4 \div 24 + r5 \div 120 + FMul(r5, r1) \div 720
        : r5 \in {FMul(r4, r1)} })
        : r4 \in {FMul(r3, r1)} })
        : r3 \in {FMul(r2, r1)} })
        : r2 \in {FMul(r1, r1)} })
        : r1 \in {r} })

\* f32::exp
FExp(x) ==
    The({ IF IsNaN(a) THEN a
        ELSE IF a = PINF THEN PINF
        ELSE IF a = NINF THEN 0
        ELSE IF a > 12 * ONE THEN PINF
        ELSE IF a < 0 - 12 * ONE THEN 0
        ELSE Scale2(ExpSeries(a % LN_2), a \div LN_2)
        : a \in {x} })

\* f32::powf for a finite exponent y > 0; a whole exponent is a repeated product.
FPowf(x, y) ==
    The({ IF IsNaN(a) THEN a
        ELSE IF IsNaN(b) THEN b
        ELSE IF b % ONE = 0 THEN FPowi(a, b \div ONE)
        ELSE IF a = ONE THEN ONE
        ELSE IF a = 0 THEN 0
        ELSE IF a < 0 THEN GenNaN
        ELSE FExp(FMul(b, FLn(a)))
        : a \in {x}, b \in {y} })

\* The cosine of a finite angle t >= 0 reduced to one turn.
CosTurn(t) ==
    The({ IF q = 0 THEN ONE - f
        ELSE IF q = 1 THEN 0 - f
        ELSE IF q = 2 THEN f - ONE
        ELSE f
        : q \in {t \div (PI \div 2)}, f \in {((t % (PI \div 2)) * ONE) \div (PI \div 2)} })

\* f32::cos
FCos(x) ==
    The({ IF IsNaN(a) THEN a
        ELSE IF IsInf(a) THEN GenNaN
        ELSE CosTurn(Mag(a) % (2 * PI))
        : a \in {x} })

\* f32::sin: sin x = cos (x - pi/2)
FSin(x) ==
    The({ IF IsNaN(a) THEN a
        ELSE IF IsInf(a) THEN GenNaN
        ELSE CosTurn((a - PI \div 2) % (2 * PI))
        : a \in {x} })

\* f32 as u8: saturating, NaN becomes 0, the fraction is dropped.
AsU8(x) ==
    The({ IF IsNaN(a) THEN 0
        ELSE IF a < 0 THEN 0
        ELSE IF a > 255 * ONE THEN 255
        ELSE a \div ONE
        : a \in {x} })

\* u32 as f32
AsF32(k) == k * ONE

\* f32 as u32: saturating at 0, NaN becomes 0.
AsU32(x) ==
    The({ IF IsNaN(a) THEN 0
        ELSE IF a < 0 THEN 0
        ELSE a \div ONE
        : a \in {x} })

(***************************************************************************)
(* Option<(f32, Vec3, Material)>, the result of every hit function         *)
(***************************************************************************)
NoMaterial == [color |-> ZeroVec, metallic |-> 0, roughness |-> 0, ior |-> 0,
               volume_density |-> 0, volume_anisotropy |-> 0]

None == [some |-> FALSE, t |-> 0, n |-> ZeroVec, mat |-> NoMaterial]

Some(t, n, mat) == [some |-> TRUE, t |-> t, n |-> n, mat |-> mat]

(***************************************************************************)
(* sphere.rs                                                               *)
(***************************************************************************)
\* The discriminant of the quadratic of Sphere::hit.
Sphere_disc(self, ro, rd) ==
    The({ The({ The({ The({ FSub(FMul(b, b), FMul(FMul(4 * ONE, a), c))
        : c \in {FSub(dot(oc, oc), FMul(self.radius, self.radius))} })
        : b \in {FMul(2 * ONE, dot(oc, rd))} })
        : a \in {dot(rd, rd)} })
        : oc \in {sub(ro, self.center)} })

\* Variant: Sphere::hit without the test of the discriminant.
Sphere_hit_no_disc_test(self, ro, rd) ==
    The({ The({ The({ The({ The({ IF FLe(t, 0) THEN None
        ELSE
    The({ The({ Some(t, normal, self.material)
        : normal \in {scale(sub(hit, self.center), FDiv(ONE, self.radius))} })
        : hit \in {add(ro, scale(rd, t))} })
        : t \in {FDiv(FSub(FNeg(b), FSqrt(disc)), FMul(2 * ONE, a))} })
        : disc \in {Sphere_disc(self, ro, rd)} })
        : b \in {FMul(2 * ONE, dot(oc, rd))} })
        : a \in {dot(rd, rd)} })
        : oc \in {sub(ro, self.center)} })

Sphere_hit(self, ro, rd) ==
    The({ The({ The({ The({ The({ IF FLt(disc, 0) THEN None
        ELSE
    The({ IF FLe(t, 0) THEN None
        ELSE
    The({ The({ Some(t, normal, self.material)
        : normal \in {scale(sub(hit, self.center), FDiv(ONE, self.radius))} })
        : hit \in {add(ro, scale(rd, t))} })
        : t \in {FDiv(FSub(FNeg(b), FSqrt(disc)), FMul(2 * ONE, a))} })
        : disc \in {FSub(FMul(b, b), FMul(FMul(4 * ONE, a), c))} })
        : c \in {FSub(dot(oc, oc), FMul(self.radius, self.radius))} })
        : b \in {FMul(2 * ONE, dot(oc, rd))} })
        : a \in {dot(rd, rd)} })
        : oc \in {sub(ro, self.center)} })

(***************************************************************************)
(* plane.rs                                                                *)
(***************************************************************************)
\* Variant: Plane::hit that rejects a point exactly on the boundary.
Plane_hit_boundary_excluded(self, ro, rd) ==
    The({ \* denom.abs() < 1e-6: below one fixed-point step, so only 0 is smaller
        IF FLt(FAbs(denom), 1) THEN None
        ELSE
    The({ IF ~IsFinite(t) \/ FLe(t, 1) THEN None
        ELSE
    The({ The({ The({ The({ IF ~FLt(FAbs(du), u2) THEN None
        ELSE
    The({ IF ~FLt(FAbs(dv), v2) THEN None
        ELSE Some(t, hit_normal, self.material)
        : dv \in {dot(d, self.v)}, v2 \in {dot(self.v, self.v)} })
        : du \in {dot(d, self.u)}, u2 \in {dot(self.u, self.u)} })
        : d \in {sub(hit, self.point)} })
        : hit \in {add(ro, scale(rd, t))} })
        : hit_normal \in {IF FLt(denom, 0) THEN self.normal ELSE neg(self.normal)} })
        : t \in {FDiv(dot(sub(self.point, ro), self.normal), denom)} })
        : denom \in {dot(self.normal, rd)} })

\* Variant: Plane::hit that reports the stored normal from either side.
Plane_hit_one_sided(self, ro, rd) ==
    The({ IF FLt(FAbs(denom), 1) THEN None
        ELSE
    The({ IF ~IsFinite(t) \/ FLe(t, 1) THEN None
        ELSE
    The({ The({ The({ IF FGt(FAbs(du), u2) THEN None
        ELSE
    The({ IF FGt(FAbs(dv), v2) THEN None
        ELSE Some(t, self.normal, self.material)
        : dv \in {dot(d, self.v)}, v2 \in {dot(self.v, self.v)} })
        : du \in {dot(d, self.u)}, u2 \in {dot(self.u, self.u)} })
        : d \in {sub(hit, self.point)} })
        : hit \in {add(ro, scale(rd, t))} })
        : t \in {FDiv(dot(sub(self.point, ro), self.normal), denom)} })
        : denom \in {dot(self.normal, rd)} })

Plane_hit(self, ro, rd) ==
    The({ \* denom.abs() < 1e-6: below one fixed-point step, so only 0 is smaller
        IF FLt(FAbs(denom), 1) THEN None
        ELSE
    The({ IF ~IsFinite(t) \/ FLe(t, 1) THEN None
        ELSE
    The({ The({ The({ The({ IF FGt(FAbs(du), u2) THEN None
        ELSE
    The({ IF FGt(FAbs(dv), v2) THEN None
        ELSE Some(t, hit_normal, self.material)
        : dv \in {dot(d, self.v)}, v2 \in {dot(self.v, self.v)} })
        : du \in {dot(d, self.u)}, u2 \in {dot(self.u, self.u)} })
        : d \in {sub(hit, self.point)} })
        : hit \in {add(ro, scale(rd, t))} })
        : hit_normal \in {IF FLt(denom, 0) THEN self.normal ELSE neg(self.normal)} })
        : t \in {FDiv(dot(sub(self.point, ro), self.normal), denom)} })
        : denom \in {dot(self.normal, rd)} })

(***************************************************************************)
(* mesh.rs                                                                 *)
(***************************************************************************)
NoneF == [some |-> FALSE, t |-> 0]

SomeF(t) == [some |-> TRUE, t |-> t]

\* The geometric normal of a triangle's winding, e1 x e2 (unnormalized).
Triangle_e1xe2(tri) == cross(sub(tri.v1, tri.v0), sub(tri.v2, tri.v0))

triangle_intersect(tri, ro, rd) ==
    The({ The({ The({ \* det.abs() < 1e-8: below one fixed-point step
        IF FLt(FAbs(det), 1) THEN NoneF
        ELSE
    The({ The({ The({ IF FLt(u, 0) \/ FGt(u, ONE) THEN NoneF
        ELSE
    The({ The({ IF FLt(v, 0) \/ FGt(FAdd(u, v), ONE) THEN NoneF
        ELSE
    The({ IF FGt(t, 0) THEN SomeF(t) ELSE NoneF
        : t \in {FMul(dot(e2, q), inv_det)} })
        : v \in {FMul(dot(rd, q), inv_det)} })
        : q \in {cross(tvec, e1)} })
        : u \in {FMul(dot(tvec, p), inv_det)} })
        : tvec \in {sub(ro, tri.v0)} })
        : inv_det \in {FDiv(ONE, det)} })
        : det \in {dot(e1, p)} })
        : p \in {cross(rd, e2)} })
        : e1 \in {sub(tri.v1, tri.v0)}, e2 \in {sub(tri.v2, tri.v0)} })

\* The loop of Mesh::hit over triangles i..Len: (closest_t, hit_normal).
\* t > 1e-4 is t > 1 step.
RECURSIVE MeshScan(_, _, _, _, _, _)
MeshScan(tris, i, ro, rd, closest_t, hit_normal) ==
    IF i > Len(tris) THEN <<closest_t, hit_normal>>
    ELSE The({ IF r.some /\ FGt(r.t, 1) /\ FLt(r.t, closest_t)
             THEN MeshScan(tris, i + 1, ro, rd, r.t, tris[i].normal)
             ELSE MeshScan(tris, i + 1, ro, rd, closest_t, hit_normal)
             : r \in {triangle_intersect(tris[i], ro, rd)} })

\* Variant: the hit reports the normal of the first triangle of the mesh.
Mesh_hit_first_normal(self, ro, rd) ==
    The({ IF FLt(r[1], F32_INFINITY) THEN Some(r[1], self.triangles[1].normal, self.material) ELSE None
        : r \in {MeshScan(self.triangles, 1, ro, rd, F32_INFINITY, ZeroVec)} })

Mesh_hit(self, ro, rd) ==
    The({ IF FLt(r[1], F32_INFINITY) THEN Some(r[1], r[2], self.material) ELSE None
        : r \in {MeshScan(self.triangles, 1, ro, rd, F32_INFINITY, ZeroVec)} })

(***************************************************************************)
(* object.rs                                                               *)
(***************************************************************************)
Object_hit(self, ro, rd) ==
    IF self.kind = "Sphere" THEN Sphere_hit(self, ro, rd)
    ELSE IF self.kind = "Plane" THEN Plane_hit(self, ro, rd)
    ELSE Mesh_hit(self, ro, rd)

(***************************************************************************)
(* renderer.rs: intersect_closest                                          *)
(***************************************************************************)
\* objs.iter().filter_map(|o| o.hit(ro, rd)): the reported hits, in order.
RECURSIVE filter_map_hit(_, _, _, _)
filter_map_hit(objs, i, ro, rd) ==
    IF i > Len(objs) THEN <<>>
    ELSE The({ (IF r.some THEN <<r>> ELSE <<>>) \o filter_map_hit(objs, i + 1, ro, rd)
             : r \in {Object_hit(objs[i], ro, rd)} })

\* The comparison closure of min_by: |a, b| a.0.total_cmp(&b.0).
closest_cmp(a, b) == total_cmp(a.t, b.t)

\* Iterator::min_by: the first of the least elements (a later one replaces the
\* best so far only when the best compares Greater).
RECURSIVE min_by_fold(_, _, _)
min_by_fold(hits, i, best) ==
    IF i > Len(hits) THEN best
    ELSE The({ min_by_fold(hits, i + 1, b)
             : b \in {IF closest_cmp(best, hits[i]) = "Greater" THEN hits[i] ELSE best} })

min_by(hits) == The({ IF h = <<>> THEN None ELSE min_by_fold(h, 2, h[1])
                    : h \in {hits} })

intersect_closest(ro, rd, objs) == min_by(filter_map_hit(objs, 1, ro, rd))

(***************************************************************************)
(* main.rs: intersect, intersect_closest                                   *)
(***************************************************************************)
main_NoMaterial == [color |-> ZeroVec, metallic |-> 0, roughness |-> 0, ior |-> 0]

main_None == [some |-> FALSE, t |-> 0, n |-> ZeroVec, mat |-> main_NoMaterial]

\* Variant: intersect with the sphere test written as in Sphere::hit
\* (reject t <= 0.0), which lets a NaN t through.
main_intersect_reject_le(obj, ro, rd) ==
    IF obj.kind = "Sphere"
    THEN The({ The({ The({ The({ The({ IF FLt(disc, 0) THEN main_None
             ELSE
         The({ IF FLe(t, 0) THEN main_None
             ELSE The({ Some(t, normalize(sub(hit, obj.center)), obj.material)
                      : hit \in {add(ro, scale(rd, t))} })
             : t \in {FDiv(FSub(FNeg(b), FSqrt(disc)), FMul(2 * ONE, a))} })
             : disc \in {FSub(FMul(b, b), FMul(FMul(4 * ONE, a), c))} })
             : c \in {FSub(dot(oc, oc), FMul(obj.radius, obj.radius))} })
             : b \in {FMul(2 * ONE, dot(oc, rd))} })
             : a \in {dot(rd, rd)} })
             : oc \in {sub(ro, obj.center)} })
    ELSE The({ IF FLt(FAbs(denom), 1) THEN main_None
             ELSE
         The({ IF FGt(t, 0) THEN Some(t, obj.normal, obj.material)
             ELSE main_None
             : t \in {FDiv(dot(sub(obj.point, ro), obj.normal), denom)} })
             : denom \in {dot(obj.normal, rd)} })

main_intersect(obj, ro, rd) ==
    IF obj.kind = "Sphere"
    THEN The({ The({ The({ The({ The({ IF FLt(disc, 0) THEN main_None
             ELSE
         The({ IF FGt(t, 0)
             THEN The({ Some(t, normalize(sub(hit, obj.center)), obj.material)
                      : hit \in {add(ro, scale(rd, t))} })
             ELSE main_None
             : t \in {FDiv(FSub(FNeg(b), FSqrt(disc)), FMul(2 * ONE, a))} })
             : disc \in {FSub(FMul(b, b), FMul(FMul(4 * ONE, a), c))} })
             : c \in {FSub(dot(oc, oc), FMul(obj.radius, obj.radius))} })
             : b \in {FMul(2 * ONE, dot(oc, rd))} })
             : a \in {dot(rd, rd)} })
             : oc \in {sub(ro, obj.center)} })
    ELSE The({ IF FLt(FAbs(denom), 1) THEN main_None
             ELSE
         The({ IF FGt(t, 0) THEN Some(t, obj.normal, obj.material)
             ELSE main_None
             : t \in {FDiv(dot(sub(obj.point, ro), obj.normal), denom)} })
             : denom \in {dot(obj.normal, rd)} })

RECURSIVE main_filter_map(_, _, _, _)
main_filter_map(objects, i, ro, rd) ==
    IF i > Len(objects) THEN <<>>
    ELSE The({ (IF r.some THEN <<r>> ELSE <<>>) \o main_filter_map(objects, i + 1, ro, rd)
             : r \in {main_intersect(objects[i], ro, rd)} })

\* The comparison closure of main.rs: a.0.partial_cmp(&b.0).unwrap(), which
\* panics when partial_cmp has no answer.
main_closest_cmp(a, b) == partial_cmp(a.t, b.t)

\* min_by with the unwrapping closure: [panic, best].
RECURSIVE main_min_by_fold(_, _, _)
main_min_by_fold(hits, i, best) ==
    IF i > Len(hits) THEN [panic |-> FALSE, opt |-> best]
    ELSE The({ IF c = "None" THEN [panic |-> TRUE, opt |-> main_None]
             ELSE The({ main_min_by_fold(hits, i + 1, b)
                      : b \in {IF c = "Greater" THEN hits[i] ELSE best} })
             : c \in {main_closest_cmp(best, hits[i])} })

main_min_by(hits) ==
    The({ IF h = <<>> THEN [panic |-> FALSE, opt |-> main_None]
        ELSE main_min_by_fold(h, 2, h[1])
        : h \in {hits} })

main_intersect_closest(ro, rd, objects) == main_min_by(main_filter_map(objects, 1, ro, rd))

(***************************************************************************)
(* Random number generators                                                *)
(*                                                                         *)
(* A generator is a position in a stream of draws.  R = [rng, amb] holds   *)
(* the position of the handle passed down from pixel_color (rng) and the   *)
(* position of the thread-local generator behind rand::thread_rng() (amb). *)
(* A sampling function returns [v, r]: its value and the positions after.  *)
(***************************************************************************)
\* rng.gen::<f32>() on the handle
rng_gen(R) ==
    [v |-> rngStream[(R.rng % Len(rngStream)) + 1], r |-> [R EXCEPT !.rng = @ + 1]]

\* thread_rng().gen::<f32>()
thread_rng_gen(R) ==
    [v |-> ambStream[(R.amb % Len(ambStream)) + 1], r |-> [R EXCEPT !.amb = @ + 1]]

Ret(v, R) == [v |-> v, r |-> R]

(***************************************************************************)
(* algebra.rs: sample_disk, map                                            *)
(***************************************************************************)
\* Vec3::map with a one-argument function
map(a, f(_)) == The({ <<f(v[1]), f(v[2]), f(v[3])>>
                    : v \in {a} })

\* The value is the pair <<rad * cos ang, rad * sin ang>>.
sample_disk(r, R) ==
    The({ The({ The({ Ret(<<FMul(rad, FCos(ang)), FMul(rad, FSin(ang))>>, t.r)
        : ang \in {FMul(FMul(2 * ONE, PI), s.v)}, rad \in {FMul(r, FSqrt(t.v))} })
        : t \in {thread_rng_gen(s.r)} })
        : s \in {thread_rng_gen(R)} })

(***************************************************************************)
(* ggx.rs                                                                  *)
(***************************************************************************)
reflect(v, n) == The({ sub(a, scale(scale(b, 2 * ONE), dot(a, b)))
                     : a \in {v}, b \in {n} })

fresnel_schlick(cos_theta, f0) ==
    The({ add(f, scale(sub(OneVec, f), FPowi(FSub(ONE, cos_theta), 5)))
        : f \in {f0} })

d_term(nh, a) ==
    The({ FDiv(a2, FMul(PI, FPowi(FAdd(FMul(FMul(h, h), FSub(a2, ONE)), ONE), 2)))
        : h \in {nh}, a2 \in {FMul(a, a)} })

g_term(nv, nl, a) ==
    The({ FMul(FDiv(v, FAdd(FMul(v, FSub(ONE, k)), k)),
             FDiv(l, FAdd(FMul(l, FSub(ONE, k)), k)))
        : v \in {nv}, l \in {nl}, k \in {FDiv(FMul(a, a), 2 * ONE)} })

sample_ggx_h(n, roughness, R) ==
    The({ The({ The({ The({ The({ The({ The({ The({ The({ The({ Ret(add(add(scale(u, h_tangent[1]), scale(v, h_tangent[2])), scale(n, h_tangent[3])),
            r2.r)
        : v \in {cross(n, u)} })
        : u \in {normalize(any_orthonormal(n))} })
        : h_tangent \in {<<FMul(FCos(phi), sin_theta), FMul(FSin(phi), sin_theta), cos_theta>>} })
        : sin_theta \in {FSqrt(FMax(FSub(ONE, FMul(cos_theta, cos_theta)), 0))} })
        : cos_theta \in {FSqrt(FDiv(FSub(ONE, r2.v), FAdd(ONE, FMul(FSub(a2, ONE), r2.v))))} })
        : phi \in {FMul(FMul(2 * ONE, PI), r1.v)} })
        : r2 \in {rng_gen(r1.r)} })
        : r1 \in {rng_gen(R)} })
        : a2 \in {FMul(a, a)} })
        : a \in {FMul(roughness, roughness)} })

(***************************************************************************)
(* renderer.rs: refract, sample_phase_function                             *)
(***************************************************************************)
NoneV == [some |-> FALSE, v |-> ZeroVec]

SomeV(v) == [some |-> TRUE, v |-> v]

refract(v, n, eta_ratio) ==
    The({ The({ The({ IF FLt(dot(r_out_perp, r_out_perp), ONE) THEN SomeV(add(r_out_perp, r_out_parallel))
        ELSE NoneV
        : r_out_parallel \in {scale(n, FNeg(FSqrt(FAbs(FSub(ONE, dot(r_out_perp, r_out_perp))))))} })
        : r_out_perp \in {scale(add(v, scale(n, cos_theta)), eta_ratio)} })
        : cos_theta \in {FMin(dot(neg(v), n), ONE)} })

\* g.abs() < 1e-3 is fewer than 10 steps.
sample_phase_function(g, R) ==
    IF FLt(FAbs(g), 10)
    THEN The({ Ret(FSub(ONE, FMul(2 * ONE, d.v)), d.r)
             : d \in {rng_gen(R)} })
    ELSE The({ The({ The({ Ret(FDiv(FSub(FAdd(ONE, g2), FMul(term, term)), FMul(2 * ONE, g)), r.r)
             : term \in {FDiv(FSub(ONE, g2), FAdd(FSub(ONE, g), FMul(FMul(2 * ONE, g), r.v)))} })
             : g2 \in {FMul(g, g)} })
             : r \in {rng_gen(R)} })

(***************************************************************************)
(* renderer.rs: direct_light_sample                                        *)
(***************************************************************************)
\* Shadow rays cast per light at one shading point.
SHADOW_SAMPLES == 4

\* objs.iter().any(|o| o.hit(shadow_ro, l).map_or(false, |(t, _, _)| t * t < dist2 * 0.999))
occluded(objs, shadow_ro, l, dist2) ==
    \E i \in 1..Len(objs) :
        The({ h.some /\ FLt(FMul(h.t, h.t), FMul(dist2, 9990))
            : h \in {Object_hit(objs[i], shadow_ro, l)} })

\* The radiance one unoccluded light sample adds to light_contrib.
\* 1e-4 is one step; 1e-6 is below the resolution and is kept as one step.
light_sample_radiance(light, n, v, mat, l, dist2) ==
    The({ IF ~FGt(n_dot_l, 0) THEN ZeroVec
        ELSE
    The({ The({ The({ IF ~FGt(cos_theta_light, 0) THEN ZeroVec
        ELSE
    The({ The({ The({ The({ The({ The({ The({ The({ The({ The({ The({ The({ scale(mul(radiance, light.intensity), FMul(light_area, falloff))
        : radiance \in {scale(add(diffuse_brdf, specular_brdf), n_dot_l)} })
        : diffuse_brdf \in {scale(mul(diffuse_color, k_d), FDiv(ONE, PI))} })
        : k_d \in {sub(OneVec, f)} })
        : diffuse_color \in {scale(mat.color, FSub(ONE, mat.metallic))} })
        : specular_brdf \in {scale(spec_numerator, FDiv(ONE, FAdd(spec_denominator, 1)))} })
        : spec_denominator \in {FMul(FMul(4 * ONE, n_dot_v), n_dot_l)} })
        : spec_numerator \in {scale(scale(f, d), g)} })
        : f \in {fresnel_schlick(v_dot_h, f0)}, d \in {d_term(n_dot_h, mat.roughness)}, g \in {g_term(n_dot_v, n_dot_l, mat.roughness)} })
        : f0 \in {add(scale(<<400, 400, 400>>, FSub(ONE, mat.metallic)), scale(mat.color, mat.metallic))} })
        : n_dot_v \in {FMax(dot(n, v), 1)}, n_dot_h \in {FMax(dot(n, h), 0)}, v_dot_h \in {FMax(dot(v, h), 0)} })
        : h \in {normalize(add(v, l))} })
        : falloff \in {FDiv(cos_theta_light, dist2)} })
        : cos_theta_light \in {FMax(dot(neg(l), light_normal), 0)} })
        : light_normal \in {normalize(cross(light.u, light.v))} })
        : light_area \in {norm(cross(light.u, light.v))} })
        : n_dot_l \in {FMax(dot(n, l), 0)} })

\* A pass that adds the radiance of the sample whether it is occluded or not.
shadow_sample_unshadowed(light, hit, n, v, mat, objs, R) ==
    The({ The({ The({ The({ The({ The({ The({ [v |-> light_sample_radiance(light, n, v, mat, l, dist2),
         r |-> g2.r, lp |-> lp, shadow_ro |-> shadow_ro, l |-> l, blocked |-> blocked]
        : blocked \in {occluded(objs, shadow_ro, l, dist2)} })
        : shadow_ro \in {add(hit, scale(l, 1))} })
        : dist2 \in {dot(lvec, lvec)}, l \in {normalize(lvec)} })
        : lvec \in {sub(lp, hit)} })
        : lp \in {add(add(light.pos, scale(light.u, FSub(g1.v, 5000))), scale(light.v, FSub(g2.v, 5000)))} })
        : g2 \in {rng_gen(g1.r)} })
        : g1 \in {rng_gen(R)} })

\* One pass of the shadow-sample loop: [v: the term added to light_contrib,
\* r, lp: the point sampled on the light, shadow_ro, l, blocked].
shadow_sample(light, hit, n, v, mat, objs, R) ==
    The({ The({ The({ The({ The({ The({ The({ [v |-> IF blocked THEN ZeroVec ELSE light_sample_radiance(light, n, v, mat, l, dist2),
         r |-> g2.r, lp |-> lp, shadow_ro |-> shadow_ro, l |-> l, blocked |-> blocked]
        : blocked \in {occluded(objs, shadow_ro, l, dist2)} })
        : shadow_ro \in {add(hit, scale(l, 1))} })
        : dist2 \in {dot(lvec, lvec)}, l \in {normalize(lvec)} })
        : lvec \in {sub(lp, hit)} })
        : lp \in {add(add(light.pos, scale(light.u, FSub(g1.v, 5000))), scale(light.v, FSub(g2.v, 5000)))} })
        : g2 \in {rng_gen(g1.r)} })
        : g1 \in {rng_gen(R)} })

\* for _ in 0..SHADOW_SAMPLES, from pass k on: [v: light_contrib, r].
RECURSIVE shadow_loop(_, _, _, _, _, _, _, _, _)
shadow_loop(k, light_contrib, light, hit, n, v, mat, objs, R) ==
    IF k >= SHADOW_SAMPLES THEN Ret(light_contrib, R)
    ELSE The({ shadow_loop(k + 1, add(light_contrib, s.v), light, hit, n, v, mat, objs, s.r)
             : s \in {shadow_sample(light, hit, n, v, mat, objs, R)} })

\* for light in lights, from light i on: [v: total_direct_light, r].
RECURSIVE light_loop(_, _, _, _, _, _, _, _, _)
light_loop(i, total_direct_light, hit, n, v, mat, objs, lights, R) ==
    IF i > Len(lights) THEN Ret(total_direct_light, R)
    ELSE The({ The({ light_loop(i + 1, total, hit, n, v, mat, objs, lights, c.r)
             : total \in {add(total_direct_light, scale(c.v, FDiv(ONE, AsF32(SHADOW_SAMPLES))))} })
             : c \in {shadow_loop(0, ZeroVec, lights[i], hit, n, v, mat, objs, R)} })

direct_light_sample(hit, n, v, mat, objs, lights, R) ==
    light_loop(1, ZeroVec, hit, n, v, mat, objs, lights, R)

(***************************************************************************)
(* renderer.rs: trace                                                      *)
(*                                                                         *)
(* An invocation of trace is a frame of the call stack.  trace_enter runs  *)
(* the invocation from its first line to its return or to its recursive    *)
(* call; trace_resume runs it from the return of that call to its own      *)
(* return.  Both yield a step: what the invocation did.                    *)
(***************************************************************************)
MAX_DEPTH == 5

RUSSIAN_ROULETTE_DEPTH == 2

\* Option<Material>
NoneM == [some |-> FALSE, mat |-> NoMaterial]

SomeM(mat) == [some |-> TRUE, mat |-> mat]

\* The arguments of an invocation (glass_bounces is an argument in main.rs only).
Frame(ro, rd, depth, glass_bounces, media) ==
    [ro |-> ro, rd |-> rd, depth |-> depth, glass_bounces |-> glass_bounces, media |-> media]

NoFrame == Frame(ZeroVec, ZeroVec, 0, 0, NoneM)

\* The locals of an invocation that are live across its recursive call.
NoSaved ==
    [direct |-> ZeroVec, absorption |-> OneVec, brdf |-> ZeroVec, ndot |-> 0, p |-> 0,
     fres |-> 0, refl |-> ZeroVec, refract_dir |-> NoneV, hit |-> ZeroVec, n |-> ZeroVec,
     albedo |-> 0]

\* A step that returns value; queries counts the closest-hit queries and
\* shadow rays the step sent into the scene.
Return(branch, value, R, queries, mat, next_media) ==
    [branch |-> branch, ret |-> TRUE, value |-> value, call |-> NoFrame, saved |-> NoSaved,
     r |-> R, queries |-> queries, mat |-> mat, next_media |-> next_media]

\* A step that makes the recursive call.
Call(branch, call, saved, R, queries, mat, next_media) ==
    [branch |-> branch, ret |-> FALSE, value |-> ZeroVec, call |-> call, saved |-> saved,
     r |-> R, queries |-> queries, mat |-> mat, next_media |-> next_media]

\* The depth test with a strict comparison: one more bounce is traced.
depth_limit_off_by_one(depth) == depth > MAX_DEPTH

\* if depth >= MAX_DEPTH { return ... }
depth_limit_reached(depth) == depth >= MAX_DEPTH

\* A recursive call that passes its own depth on.
child_same_depth(f, ro, rd, media) == Frame(ro, rd, f.depth, 0, media)

\* The arguments of a recursive call of the invocation f: depth + 1.
child(f, ro, rd, media) == Frame(ro, rd, f.depth + 1, 0, media)

\* Step 2 of trace, the free path in the carried medium: [t_media, absorption, r].
march(current_media, t_surface, R) ==
    IF current_media.some /\ FGt(current_media.mat.volume_density, 0)
    THEN The({ The({ The({ The({ [t_media |-> sample_dist,
              absorption |-> map(scale(neg(absorption_coeff), FMin(sample_dist, t_surface)), FExp),
              r |-> g.r]
             : absorption_coeff \in {map(media.color, LAMBDA c : FMul(FMax(FSub(ONE, c), 0), media.volume_density))} })
             : sample_dist \in {FDiv(FNeg(FLn(g.v)), media.volume_density)} })
             : g \in {rng_gen(R)} })
             : media \in {current_media.mat} })
    ELSE [t_media |-> F32_INFINITY, absorption |-> OneVec, r |-> R]

\* Branch A of trace: the scattering event in the medium.
scatter(f, m, objs, lights) ==
    The({ The({ The({ The({ The({ The({ The({ The({ The({ Call("scatter", child(f, hit_point, next_dir, f.media),
             [NoSaved EXCEPT !.direct = direct_light.v, !.absorption = m.absorption],
             g.r, 1 + SHADOW_SAMPLES * Len(lights), f.media.mat, f.media)
        : next_dir \in {normalize(add(add(scale(scale(u, FCos(phi)), sin_theta), scale(scale(v_cross, FSin(phi)), sin_theta)), scale(f.rd, cos_theta.v)))} })
        : phi \in {FMul(FMul(2 * ONE, PI), g.v)} })
        : g \in {rng_gen(cos_theta.r)} })
        : sin_theta \in {FSqrt(FSub(ONE, FMul(cos_theta.v, cos_theta.v)))} })
        : cos_theta \in {sample_phase_function(f.media.mat.volume_anisotropy, direct_light.r)} })
        : v_cross \in {cross(f.rd, u)} })
        : u \in {normalize(any_orthonormal(f.rd))} })
        : direct_light \in {direct_light_sample(hit_point, <<0, ONE, 0>>, neg(f.rd), f.media.mat, objs, lights, m.r)} })
        : hit_point \in {add(f.ro, scale(f.rd, m.t_media))} })

\* A local copy that is the stored material.
unclamped(mat) == mat

\* The local copy of the hit material after the two clamps.
clamped(mat) ==
    [mat EXCEPT !.metallic = FClamp(mat.metallic, 0, ONE),
                !.roughness = FClamp(mat.roughness, 100, ONE)]

\* A transition that carries the material of every surface the ray enters.
next_media_of_any_entered(mat, v, n, current_media) ==
    IF FGt(dot(v, n), 0) THEN SomeM(mat) ELSE NoneM

\* The medium for the next ray of the path.
next_media_of(mat, v, n, current_media) ==
    IF FGt(mat.volume_density, 0)
    THEN (IF FGt(dot(v, n), 0) THEN SomeM(mat) ELSE NoneM)
    ELSE current_media

\* if mat.ior > 1.0 && mat.metallic < 0.1
is_glass(mat) == FGt(mat.ior, ONE) /\ FLt(mat.metallic, 1000)

\* A choice of direction that has no direction when refraction is impossible.
glass_next_dir_no_fallback(draw, reflectance, v, hit_normal, refract_dir) ==
    IF FLt(draw, reflectance) THEN reflect(neg(v), hit_normal)
    ELSE refract_dir.v

\* let next_dir = if rng.gen::<f32>() < reflectance { reflect } else if let
\* Some(refract_dir) = refract(..) { refract_dir } else { reflect }
glass_next_dir(draw, reflectance, v, hit_normal, refract_dir) ==
    IF FLt(draw, reflectance) THEN reflect(neg(v), hit_normal)
    ELSE IF refract_dir.some THEN refract_dir.v
    ELSE reflect(neg(v), hit_normal)

\* The glass surface.
glass(f, m, hit, n, v, mat, next_media) ==
    The({ The({ The({ The({ The({ The({ The({ The({ Call("glass", child(f, add(hit, scale(next_dir, 1)), next_dir, next_media),
             [NoSaved EXCEPT !.absorption = m.absorption],
             g.r, 1, mat, next_media)
        : next_dir \in {glass_next_dir(g.v, reflectance, v, hit_normal, refract_dir)} })
        : refract_dir \in {refract(neg(v), hit_normal, FDiv(etai, etat))} })
        : g \in {rng_gen(m.r)} })
        : reflectance \in {FAdd(r0, FMul(FSub(ONE, r0), FPowi(FSub(ONE, FAbs(cosi)), 5)))} })
        : r0 \in {FPowi(FDiv(FSub(etai, etat), FAdd(etai, etat)), 2)} })
        : hit_normal \in {IF FGt(cosi, 0) THEN n ELSE neg(n)} })
        : etai \in {IF FGt(cosi, 0) THEN ONE ELSE mat.ior}, etat \in {IF FGt(cosi, 0) THEN mat.ior ELSE ONE} })
        : cosi \in {FClamp(dot(v, n), 0 - ONE, ONE)} })

\* A roulette that continues on a draw equal to p.
roulette_draw_at_most_p(depth, p, R) ==
    IF depth < RUSSIAN_ROULETTE_DEPTH THEN Ret(TRUE, R)
    ELSE The({ Ret(FLe(g.v, p), g.r)
             : g \in {rng_gen(R)} })

\* A roulette that is played at every depth.
roulette_at_every_depth(depth, p, R) ==
    The({ Ret(FLt(g.v, p), g.r)
        : g \in {rng_gen(R)} })

\* Russian roulette: [v: the path continues, r].
roulette(depth, p, R) ==
    IF depth < RUSSIAN_ROULETTE_DEPTH THEN Ret(TRUE, R)
    ELSE The({ Ret(FLt(g.v, p), g.r)
             : g \in {rng_gen(R)} })

\* The sampled bounce: [v: <<next_dir, brdf>>, r].
bounce(n, v, mat, R) ==
    The({ IF FLt(c.v, FSub(ONE, mat.metallic))
        THEN The({ The({ The({ The({ The({ Ret(<< normalize(add(add(scale(scale(u, FCos(phi)), FSqrt(r2.v)),
                                          scale(scale(v_cross, FSin(phi)), FSqrt(r2.v))),
                                      scale(n, FSqrt(FSub(ONE, r2.v))))),
                        scale(mat.color, FDiv(ONE, PI)) >>, r2.r)
                 : phi \in {FMul(FMul(2 * ONE, PI), g1.v)} })
                 : r2 \in {rng_gen(g1.r)} })
                 : g1 \in {rng_gen(c.r)} })
                 : v_cross \in {cross(n, u)} })
                 : u \in {normalize(any_orthonormal(n))} })
        ELSE The({ Ret(<<reflect(neg(v), h.v), OneVec>>, h.r)
                 : h \in {sample_ggx_h(n, mat.roughness, c.r)} })
        : c \in {rng_gen(R)} })

\* An opaque surface that follows the sampled bounce wherever it points.
opaque_any_direction(f, m, hit, n, v, mat, next_media, objs, lights) ==
    The({ The({ The({ The({ IF ~go.v
        THEN Return("opaque", mul(add(direct_light.v, ZeroVec), m.absorption), go.r,
                    queries, mat, next_media)
        ELSE
    The({ The({ Call("opaque", child(f, add(hit, scale(b.v[1], 1)), b.v[1], next_media),
                  [NoSaved EXCEPT !.direct = direct_light.v, !.absorption = m.absorption,
                                  !.brdf = b.v[2], !.ndot = ndot, !.p = p],
                  b.r, queries, mat, next_media)
        : ndot \in {dot(b.v[1], n)} })
        : b \in {bounce(n, v, mat, go.r)} })
        : queries \in {1 + SHADOW_SAMPLES * Len(lights)} })
        : go \in {roulette(f.depth, p, direct_light.r)} })
        : p \in {FMax(FMax(mat.color[1], mat.color[2]), mat.color[3])} })
        : direct_light \in {direct_light_sample(hit, n, v, mat, objs, lights, m.r)} })

\* The opaque surface.
opaque(f, m, hit, n, v, mat, next_media, objs, lights) ==
    The({ The({ The({ The({ IF ~go.v
        THEN Return("opaque", mul(add(direct_light.v, ZeroVec), m.absorption), go.r,
                    queries, mat, next_media)
        ELSE
    The({ The({ IF FGt(ndot, 0)
        THEN Call("opaque", child(f, add(hit, scale(b.v[1], 1)), b.v[1], next_media),
                  [NoSaved EXCEPT !.direct = direct_light.v, !.absorption = m.absorption,
                                  !.brdf = b.v[2], !.ndot = ndot, !.p = p],
                  b.r, queries, mat, next_media)
        ELSE Return("opaque", mul(add(direct_light.v, ZeroVec), m.absorption), b.r,
                    queries, mat, next_media)
        : ndot \in {dot(b.v[1], n)} })
        : b \in {bounce(n, v, mat, go.r)} })
        : queries \in {1 + SHADOW_SAMPLES * Len(lights)} })
        : go \in {roulette(f.depth, p, direct_light.r)} })
        : p \in {FMax(FMax(mat.color[1], mat.color[2]), mat.color[3])} })
        : direct_light \in {direct_light_sample(hit, n, v, mat, objs, lights, m.r)} })

\* Branch B of trace: the surface.
surface(f, m, surface_hit, objs, lights) ==
    IF ~surface_hit.some
    THEN Return("miss", mul(ZeroVec, m.absorption), m.r, 1, NoMaterial, f.media)
    ELSE
    The({ The({ The({ The({ IF is_glass(mat) THEN glass(f, m, hit, surface_hit.n, v, mat, next_media)
        ELSE opaque(f, m, hit, surface_hit.n, v, mat, next_media, objs, lights)
        : next_media \in {next_media_of(mat, v, surface_hit.n, f.media)} })
        : mat \in {clamped(surface_hit.mat)} })
        : v \in {neg(f.rd)} })
        : hit \in {add(f.ro, scale(f.rd, surface_hit.t))} })

\* A test that takes the medium event whenever a free path was sampled.
media_event_whenever_sampled(t_media, t_surface) == IsFinite(t_media)

\* if t_media < t_surface
media_event_first(t_media, t_surface) == FLt(t_media, t_surface)

\* trace from its first line to its return or its recursive call.
trace_enter(f, objs, lights, R) ==
    IF depth_limit_reached(f.depth) THEN Return("limit", ZeroVec, R, 0, NoMaterial, f.media)
    ELSE
    The({ The({ The({ IF media_event_first(m.t_media, t_surface) THEN scatter(f, m, objs, lights)
        ELSE surface(f, m, surface_hit, objs, lights)
        : m \in {march(f.media, t_surface, R)} })
        : t_surface \in {IF surface_hit.some THEN surface_hit.t ELSE F32_INFINITY} })
        : surface_hit \in {intersect_closest(f.ro, f.rd, objs)} })

\* trace from the return of its recursive call (incoming) to its own return.
trace_resume(f, branch, saved, incoming) ==
    IF branch = "scatter" THEN mul(add(saved.direct, incoming), saved.absorption)
    ELSE IF branch = "glass" THEN mul(incoming, saved.absorption)
    ELSE The({ mul(add(saved.direct,
                     IF f.depth >= RUSSIAN_ROULETTE_DEPTH
                     THEN scale(indirect_light, FDiv(ONE, saved.p))
                     ELSE indirect_light),
                 saved.absorption)
             : indirect_light \in {scale(mul(incoming, saved.brdf), saved.ndot)} })

(***************************************************************************)
(* tonemap.rs, renderer.rs: pixel_color                                    *)
(***************************************************************************)
aces_film(c) ==
    map(c, LAMBDA x :
        FPowf(FClamp(FDiv(FMul(x, FAdd(FMul(25100, x), 300)),
                          FAdd(FMul(x, FAdd(FMul(24300, x), 5900)), 1400)), 0, ONE),
              4545))

\* The camera arguments of pixel_color.
Camera(w, h, aspect, scale_, cam, right, up, forward, focus, aperture) ==
    [w |-> w, h |-> h, aspect |-> aspect, scale |-> scale_, cam |-> cam, right |-> right,
     up |-> up, forward |-> forward, focus |-> focus, aperture |-> aperture]

\* One pass of the sample loop up to the call of trace: [v: <<origin, rd>>, r].
primary_ray(x, y, c, R) ==
    The({ The({ The({ The({ The({ The({ The({ The({ Ret(<<origin, normalize(sub(focal_pt, origin))>>, d.r)
        : origin \in {add(add(c.cam, scale(c.right, d.v[1])), scale(c.up, d.v[2]))} })
        : focal_pt \in {add(c.cam, scale(rd0, c.focus))} })
        : d \in {sample_disk(c.aperture, jy.r)} })
        : rd0 \in {normalize(add(add(scale(c.right, u), scale(c.up, v)), c.forward))} })
        : v \in {FMul(FMul(FNeg(FSub(FDiv(FAdd(AsF32(y), jy.v), AsF32(c.h)), 5000)), 2 * ONE), c.scale)} })
        : u \in {FMul(FMul(FMul(FSub(FDiv(FAdd(AsF32(x), jx.v), AsF32(c.w)), 5000), 2 * ONE), c.aspect), c.scale)} })
        : jy \in {rng_gen(jx.r)} })
        : jx \in {rng_gen(R)} })

\* pixel_color after the sample loop: the [u8; 3].
pixel_rgb(col, samples) ==
    The({ The({ << AsU8(FMin(FMul(FPowf(tonemapped_col[1], 4545), 255 * ONE), 255 * ONE)),
           AsU8(FMin(FMul(FPowf(tonemapped_col[2], 4545), 255 * ONE), 255 * ONE)),
           AsU8(FMin(FMul(FPowf(tonemapped_col[3], 4545), 255 * ONE), 255 * ONE)) >>
        : tonemapped_col \in {aces_film(avg_col)} })
        : avg_col \in {scale(col, FDiv(ONE, AsF32(samples)))} })

(***************************************************************************)
(* renderer.rs: autofocus                                                  *)
(***************************************************************************)
\* The direction of ray (i, j) of the 5 x 5 grid.
autofocus_dir(i, j, c) ==
    The({ The({ The({ normalize(add(add(scale(c.right, u), scale(c.up, v)), c.forward))
        : v \in {FNeg(FMul(FMul(FSub(FDiv(py, AsF32(c.h)), 5000), 2 * ONE), c.scale))} })
        : u \in {FMul(FMul(FMul(FSub(FDiv(px, AsF32(c.w)), 5000), 2 * ONE), c.aspect), c.scale)} })
        : px \in {FAdd(AsF32(c.w \div 2), FSub(AsF32(i), 2 * ONE))}, py \in {FAdd(AsF32(c.h \div 2), FSub(AsF32(j), 2 * ONE))} })

\* A sequence given as a function, evaluated once.
Seq_(f) == f \o <<>>

\* The closest hits of the 25 rays, in the order of the two loops.
autofocus_hits(c, objs) ==
    Seq_([n \in 1..25 |->
             intersect_closest(c.cam, autofocus_dir((n - 1) \div 5, (n - 1) % 5, c), objs)])

\* dists: the t of each ray that hit, in order.
autofocus_dists(c, objs) ==
    The({ Seq_([n \in 1..Len(hs) |-> hs[n].t])
        : hs \in {SelectSeq(autofocus_hits(c, objs), LAMBDA h : h.some)} })

\* dists.iter().copied().sum::<f32>()
RECURSIVE sum(_, _, _)
sum(s, i, a) == IF i > Len(s) THEN a ELSE The({ sum(s, i + 1, a1)
                                              : a1 \in {FAdd(a, s[i])} })

autofocus(c, objs) ==
    The({ IF dists = <<>> THEN 10 * ONE ELSE FDiv(sum(dists, 1, 0), AsF32(Len(dists)))
        : dists \in {autofocus_dists(c, objs)} })

(***************************************************************************)
(* main.rs: shading                                                        *)
(***************************************************************************)
main_normalize(a) == The({ The({ scale(v, FDiv(ONE, n))
                                           : n \in {norm(v)} })
                         : v \in {a} })

main_reflect(v, n) == The({ sub(a, scale(b, FMul(2 * ONE, dot(a, b))))
                          : a \in {v}, b \in {n} })

main_fresnel_schlick(cos_theta, f0) ==
    The({ add(f, scale(sub(OneVec, f), FPowf(FSub(ONE, cos_theta), 5 * ONE)))
        : f \in {f0} })

ggx_d(n_dot_h, alpha) ==
    The({ FDiv(a2, FMul(PI, FPowf(FAdd(FMul(FMul(h, h), FSub(a2, ONE)), ONE), 2 * ONE)))
        : h \in {n_dot_h}, a2 \in {FMul(alpha, alpha)} })

\* One factor of ggx_g.
ggx_g1(c, alpha) ==
    The({ FDiv(2 * ONE,
             FAdd(ONE, FSqrt(FAdd(ONE, FDiv(FMul(FMul(alpha, alpha), FSub(ONE, c2)), c2)))))
        : c2 \in {FMul(c, c)} })

ggx_g(n_dot_v, n_dot_l, alpha) == FMul(ggx_g1(n_dot_v, alpha), ggx_g1(n_dot_l, alpha))

main_sample_disk(r, R) ==
    The({ The({ The({ Ret(<<FMul(FCos(phi), FSqrt(r2)), FMul(FSin(phi), FSqrt(r2))>>, g.r)
        : phi \in {FMul(FMul(2 * ONE, PI), g.v)} })
        : g \in {thread_rng_gen(R)} })
        : r2 \in {FMul(r, r)} })

\* Light samples of lighting.
main_samples == 8

\* The shadow test: some object is hit on the shadow ray with t * t < dist2.
main_blocked(objects, shadow_ro, l, dist2) ==
    \E i \in 1..Len(objects) :
        The({ h.some /\ FLt(FMul(h.t, h.t), dist2)
            : h \in {main_intersect(objects[i], shadow_ro, l)} })

\* One pass of the sample loop of lighting: [diff, spec: the terms added, r].
\* 0.001 is 10 steps; 1e-4 is one step.
main_light_sample(hit, n, v, mat, objects, light, R) ==
    The({ The({ The({ The({ The({ The({ IF main_blocked(objects, shadow_ro, l, dist2)
        THEN [diff |-> ZeroVec, spec |-> ZeroVec, r |-> v_off.r, blocked |-> TRUE]
        ELSE
    The({ The({ The({ The({ The({ The({ The({ [diff |-> scale(mat.color, n_dot_l), spec |-> scale(spec_c, n_dot_l),
         r |-> v_off.r, blocked |-> FALSE]
        : spec_c \in {scale(f, FDiv(FMul(d, g), FMul(FMul(4 * ONE, n_dot_v), n_dot_l2)))} })
        : f \in {main_fresnel_schlick(v_dot_h, f0)}, d \in {ggx_d(n_dot_h, mat.roughness)}, g \in {ggx_g(n_dot_v, n_dot_l2, mat.roughness)} })
        : f0 \in {add(<<400, 400, 400>>, scale(mat.color, mat.metallic))} })
        : n_dot_h \in {FMax(dot(n, h), 0)}, v_dot_h \in {FMax(dot(v, h), 0)} })
        : n_dot_v \in {FMax(dot(n, v), 1)}, n_dot_l2 \in {FMax(dot(n, l), 1)} })
        : h \in {main_normalize(add(l, v))} })
        : n_dot_l \in {FMax(dot(n, l), 0)} })
        : shadow_ro \in {add(hit, scale(n, 10))} })
        : dist2 \in {dot(ld, ld)}, l \in {main_normalize(ld)} })
        : ld \in {sub(lp, hit)} })
        : lp \in {add(add(light.pos, scale(light.u, FSub(u_off.v, 5000))), scale(light.v, FSub(v_off.v, 5000)))} })
        : v_off \in {thread_rng_gen(u_off.r)} })
        : u_off \in {thread_rng_gen(R)} })

\* for _ in 0..samples, from pass k on: [diff, spec, r].
RECURSIVE main_light_loop(_, _, _, _, _, _, _, _, _, _)
main_light_loop(k, diff, spec, hit, n, v, mat, objects, light, R) ==
    IF k >= main_samples THEN [diff |-> diff, spec |-> spec, r |-> R]
    ELSE The({ The({ main_light_loop(k + 1, diff1, spec1, hit, n, v, mat, objects, light, s.r)
             : diff1 \in {add(diff, s.diff)}, spec1 \in {add(spec, s.spec)} })
             : s \in {main_light_sample(hit, n, v, mat, objects, light, R)} })

main_lighting(hit, n, v, mat, objects, light, R) ==
    The({ The({ Ret(add(scale(s.diff, w), scale(s.spec, w)), s.r)
        : w \in {FDiv(light.intensity[1], AsF32(main_samples))} })
        : s \in {main_light_loop(0, ZeroVec, ZeroVec, hit, n, v, mat, objects, light, R)} })

tone(c) == The({ scale(v, FDiv(ONE, FAdd(ONE, v[1])))
               : v \in {c} })

\* The sky of main.rs: white below, (0.5, 0.7, 1.0) above, by the y of the direction.
main_sky(rd) ==
    The({ add(scale(OneVec, FSub(ONE, t)), scale(<<5000, 7000, ONE>>, t))
        : t \in {FMul(5000, FAdd(rd[2], ONE))} })

main_refract(dir, normal, eta) ==
    The({ The({ The({ The({ The({ IF FLt(k, 0) THEN NoneV
        ELSE SomeV(add(scale(dir, eta_ratio),
                       scale(n, FSub(FMul(eta_ratio, cos_i), FSqrt(k)))))
        : k \in {FSub(ONE, FMul(FMul(eta_ratio, eta_ratio), FSub(ONE, FMul(cos_i, cos_i))))} })
        : eta_ratio \in {FDiv(eta_i, eta_t)} })
        : eta_i \in {IF FLt(cos_i, 0) THEN eta ELSE ONE}, eta_t \in {IF FLt(cos_i, 0) THEN ONE ELSE eta} })
        : n \in {IF FLt(cos_i, 0) THEN neg(normal) ELSE normal} })
        : cos_i \in {FNeg(FMin(FMax(dot(dir, normal), 0 - ONE), ONE))} })

(***************************************************************************)
(* main.rs: trace                                                          *)
(***************************************************************************)
main_MAX_DEPTH == 12

MAX_GLASS_BOUNCES == 8

\* The two termination tests of trace.
main_limit_reached(depth, glass_bounces) ==
    depth >= main_MAX_DEPTH \/ glass_bounces >= MAX_GLASS_BOUNCES

\* The arguments of a recursive call: depth + 1, and glass_bounces plus by.
main_child(f, ro, rd, by) == Frame(ro, rd, f.depth + 1, f.glass_bounces + by, NoneM)

\* let is_glass = mat.roughness < 0.05 && mat.metallic < 0.5
main_is_glass(mat) == FLt(mat.roughness, 500) /\ FLt(mat.metallic, 5000)

\* The glass surface up to the first recursive call (the reflected ray).
main_glass(f, hit, n, mat, R) ==
    The({ The({ The({ The({ Call("glass_refl", main_child(f, add(hit, scale(n, 10)), reflect_dir, 1),
             [NoSaved EXCEPT !.fres = fres[1], !.refract_dir = refract_dir, !.hit = hit, !.n = n],
             R, 1, mat, NoneM)
        : fres \in {main_fresnel_schlick(FMax(dot(neg(f.rd), n), 0), OneVec)} })
        : refract_dir \in {IF refracted.some THEN SomeV(main_normalize(refracted.v)) ELSE NoneV} })
        : refracted \in {main_refract(f.rd, n, FDiv(ONE, mat.ior))} })
        : reflect_dir \in {main_normalize(main_reflect(f.rd, n))} })

\* The diffuse / glossy surface up to the recursive call.
main_diffuse(f, hit, n, mat, objects, light, R) ==
    The({ The({ The({ The({ The({ The({ The({ The({ Call("diffuse", main_child(f, add(hit, scale(n, 10)), hemi_dir, 0),
             [NoSaved EXCEPT !.direct = direct.v, !.albedo = mat.color[1]],
             r2.r, 1 + main_samples, mat, NoneM)
        : hemi_dir \in {main_normalize(add(add(scale(u, FMul(FCos(phi), sin_t)), scale(v, FMul(FSin(phi), sin_t))), scale(n, cos_t)))} })
        : cos_t \in {FSqrt(FSub(ONE, r2.v))}, sin_t \in {FSqrt(r2.v)} })
        : phi \in {FMul(FMul(2 * ONE, PI), r1.v)} })
        : r2 \in {thread_rng_gen(r1.r)} })
        : r1 \in {thread_rng_gen(direct.r)} })
        : v \in {cross(n, u)} })
        : u \in {IF FGt(FAbs(n[1]), 1000) THEN main_normalize(cross(n, <<0, ONE, 0>>)) ELSE main_normalize(cross(n, <<ONE, 0, 0>>))} })
        : direct \in {main_lighting(hit, n, neg(f.rd), mat, objects, light, R)} })

\* trace from its first line to its return or its first recursive call.
\* A panic of the comparison in intersect_closest ends the step as "panic".
main_trace_enter(f, objects, light, R) ==
    IF main_limit_reached(f.depth, f.glass_bounces)
    THEN Return("limit", ZeroVec, R, 0, NoMaterial, NoneM)
    ELSE
    The({ IF q.panic THEN Return("panic", ZeroVec, R, 1, NoMaterial, NoneM)
        ELSE IF ~q.opt.some THEN Return("miss", main_sky(f.rd), R, 1, NoMaterial, NoneM)
        ELSE
    The({ IF main_is_glass(q.opt.mat) THEN main_glass(f, hit, q.opt.n, q.opt.mat, R)
        ELSE main_diffuse(f, hit, q.opt.n, q.opt.mat, objects, light, R)
        : hit \in {add(f.ro, scale(f.rd, q.opt.t))} })
        : q \in {main_intersect_closest(f.ro, f.rd, objects)} })

\* trace from the return of a recursive call (incoming) to its return or its
\* second recursive call (the refracted ray).
main_trace_resume(f, branch, saved, incoming, R) ==
    IF branch = "glass_refl"
    THEN (IF saved.refract_dir.some
          THEN Call("glass_refr",
                    main_child(f, sub(saved.hit, scale(saved.n, 10)), saved.refract_dir.v, 1),
                    [saved EXCEPT !.refl = incoming], R, 0, NoMaterial, NoneM)
          ELSE Return("glass", add(scale(incoming, saved.fres), scale(ZeroVec, FSub(ONE, saved.fres))),
                      R, 0, NoMaterial, NoneM))
    ELSE IF branch = "glass_refr"
    THEN Return("glass", add(scale(saved.refl, saved.fres), scale(incoming, FSub(ONE, saved.fres))),
                R, 0, NoMaterial, NoneM)
    ELSE Return("diffuse", add(saved.direct, scale(incoming, saved.albedo)), R, 0, NoMaterial, NoneM)

(***************************************************************************)
(* main.rs: the pixel loop of main                                         *)
(***************************************************************************)
\* let sqrt_samples = (samples as f32).sqrt() as u32
sqrt_samples(samples) == AsU32(FSqrt(AsF32(samples)))

\* One pass of the inner sample loop up to the call of trace: [v: <<origin, rd>>, r].
main_primary_ray(x, y, i, j, samples, c, R) ==
    The({ The({ The({ The({ The({ The({ The({ The({ The({ The({ The({ The({ The({ The({ Ret(<<origin, main_normalize(sub(focal_pt, origin))>>, d.r)
        : origin \in {add(add(c.cam, scale(c.right, d.v[1])), scale(c.up, d.v[2]))} })
        : d \in {main_sample_disk(FMul(a2.v, c.aperture), a2.r)} })
        : a2 \in {thread_rng_gen(d1.r)} })
        : focal_pt \in {add(c.cam, scale(rd0, c.focus))} })
        : d1 \in {main_sample_disk(FMul(a1.v, c.aperture), a1.r)} })
        : a1 \in {thread_rng_gen(gy.r)} })
        : rd0 \in {main_normalize(<<u, v, ONE>>)} })
        : v \in {FMul(FMul(FNeg(FSub(FDiv(FAdd(AsF32(y), jitter_y), AsF32(c.h)), 5000)), 2 * ONE), c.scale)} })
        : u \in {FMul(FMul(FMul(FSub(FDiv(FAdd(AsF32(x), jitter_x), AsF32(c.w)), 5000), 2 * ONE), c.aspect), c.scale)} })
        : jitter_y \in {FDiv(FAdd(AsF32(j), gy.v), n)} })
        : gy \in {thread_rng_gen(gx.r)} })
        : jitter_x \in {FDiv(FAdd(AsF32(i), gx.v), n)} })
        : gx \in {thread_rng_gen(R)} })
        : n \in {AsF32(sqrt_samples(samples))} })

\* The pixel after the sample loops: the [u8; 3].
main_pixel_rgb(col, samples) ==
    The({ << AsU8(FMin(FMul(c[1], 255 * ONE), 255 * ONE)),
           AsU8(FMin(FMul(c[2], 255 * ONE), 255 * ONE)),
           AsU8(FMin(FMul(c[3], 255 * ONE), 255 * ONE)) >>
        : c \in {tone(scale(col, FDiv(ONE, AsF32(samples))))} })

(***************************************************************************)
(* main.rs: the autofocus of main                                          *)
(***************************************************************************)
autofocus_rays == 5

\* (width / 2 + i - autofocus_rays / 2) as f32, in u32 arithmetic: where the
\* difference is negative the release build wraps to a value above FMAX.
main_autofocus_px(width, i) ==
    IF width \div 2 + i >= autofocus_rays \div 2
    THEN AsF32(width \div 2 + i - autofocus_rays \div 2)
    ELSE PINF

main_autofocus_dir(i, j, c) ==
    The({ main_normalize(<<FMul(FMul(u, c.aspect), c.scale), FMul(FNeg(v), c.scale), ONE>>)
        : u \in {FSub(FMul(FDiv(main_autofocus_px(c.w, i), AsF32(c.w)), 2 * ONE), ONE)}, v \in {FSub(FMul(FDiv(main_autofocus_px(c.h, j), AsF32(c.h)), 2 * ONE), ONE)} })

\* The closest-hit queries of the rays, in the order of the two loops.
main_autofocus_hits(c, objects) ==
    Seq_([n \in 1..(autofocus_rays * autofocus_rays) |->
             The({ [ray_dir |-> ray_dir, q |-> main_intersect_closest(c.cam, ray_dir, objects)]
                 : ray_dir \in {main_autofocus_dir((n - 1) \div autofocus_rays, (n - 1) % autofocus_rays, c)} })])

\* [panic: some query panicked, v: distances of the rays that hit, in order].
main_autofocus_distances(c, objects) ==
    The({ IF \E n \in DOMAIN hs : hs[n].q.panic THEN [panic |-> TRUE, v |-> <<>>]
        ELSE
    The({ [panic |-> FALSE,
         v |-> Seq_([n \in 1..Len(hit) |->
                  The({ norm(sub(focus_adjusted, c.cam))
                      : focus_adjusted \in {sub(add(c.cam, scale(hit[n].ray_dir, hit[n].q.opt.t)), scale(hit[n].q.opt.n, 1000))} })])]
        : hit \in {SelectSeq(hs, LAMBDA h : h.q.opt.some)} })
        : hs \in {main_autofocus_hits(c, objects)} })

\* [panic, v: focus]
main_autofocus(c, objects) ==
    The({ IF d.panic THEN [panic |-> TRUE, v |-> 0]
        ELSE IF d.v # <<>> THEN [panic |-> FALSE, v |-> FDiv(sum(d.v, 1, 0), AsF32(Len(d.v)))]
        ELSE [panic |-> FALSE, v |-> 5 * ONE]
        : d \in {main_autofocus_distances(c, objects)} })

(***************************************************************************)
(* Inputs: materials, primitives and rays                                  *)
(***************************************************************************)
U(k) == k * ONE

Material(color, metallic, roughness, ior, density, anisotropy) ==
    [color |-> color, metallic |-> metallic, roughness |-> roughness, ior |-> ior,
     volume_density |-> density, volume_anisotropy |-> anisotropy]

\* scene.rs: the default material of load.
default_mat == Material(<<ONE, 0, ONE>>, 0, ONE, ONE, 0, 0)

MatDiffuse == Material(<<8000, 8000, 8000>>, 0, ONE, ONE, 0, 0)
MatGlass   == Material(<<ONE, ONE, ONE>>, 0, 0, 15000, 0, 0)

Sphere(center, radius, material) ==
    [kind |-> "Sphere", center |-> center, radius |-> radius, material |-> material]

\* plane.rs: the struct carries its pre-calculated normal.
Plane(point, u, v, normal, material) ==
    [kind |-> "Plane", point |-> point, u |-> u, v |-> v,
     normal |-> normal, material |-> material]

\* mesh.rs: a triangle carries the normal stored with it.
Triangle(v0, v1, v2, normal) ==
    [v0 |-> v0, v1 |-> v1, v2 |-> v2, normal |-> normal]

Mesh(triangles, material) ==
    [kind |-> "Mesh", triangles |-> triangles, material |-> material]

main_Material(color, metallic, roughness, ior) ==
    [color |-> color, metallic |-> metallic, roughness |-> roughness, ior |-> ior]

main_MatDiffuse == main_Material(<<8000, 8000, 8000>>, 0, ONE, ONE)
main_MatGlass   == main_Material(<<ONE, ONE, ONE>>, 0, 0, 15000)

main_Sphere(center, radius, material) ==
    [kind |-> "Sphere", center |-> center, radius |-> radius, material |-> material]

main_Plane(point, normal, material) ==
    [kind |-> "Plane", point |-> point, normal |-> normal, material |-> material]

\* Sequences over S of length at most n.
RECURSIVE SeqsUpTo(_, _)
SeqsUpTo(S, n) ==
    IF n = 0 THEN {<<>>}
    ELSE LET shorter == SeqsUpTo(S, n - 1)
         IN  shorter \cup {Append(q, e) : q \in shorter, e \in S}

\* Longest object list of an intersection query.
MaxObjs == 2

\* Three proper triangles: front (z = 4), near (z = 2, wound the other way,
\* so its normal is the opposite one) and skin (z = 1e-4, one step in front
\* of the origins at z = 0); and two degenerate ones (collinear and
\* coincident vertices) whose normal is the NaN vector normalize makes of zero.
GeomTriangles ==
    [ front |-> Triangle(<<U(0 - 1), U(0 - 1), U(4)>>, <<U(1), U(0 - 1), U(4)>>, <<U(0), U(1), U(4)>>,
                         <<U(0), U(0), U(1)>>),
      near  |-> Triangle(<<U(0 - 1), U(0 - 1), U(2)>>, <<U(0), U(1), U(2)>>, <<U(1), U(0 - 1), U(2)>>,
                         <<U(0), U(0), U(0 - 1)>>),
      skin  |-> Triangle(<<U(0 - 1), U(0 - 1), 1>>, <<U(1), U(0 - 1), 1>>, <<U(0), U(1), 1>>,
                         <<U(0), U(0), U(1)>>),
      line  |-> Triangle(<<U(0), U(0), U(4)>>, <<U(1), U(0), U(4)>>, <<U(2), U(0), U(4)>>,
                         <<GenNaN, GenNaN, GenNaN>>),
      point |-> Triangle(<<U(0), U(0), U(4)>>, <<U(0), U(0), U(4)>>, <<U(0), U(0), U(4)>>,
                         <<GenNaN, GenNaN, GenNaN>>) ]

GeomObjects ==
    { Sphere(<<U(0), U(0), U(3)>>, U(1), MatGlass),
      Sphere(<<U(0), U(0), U(0)>>, U(2), MatDiffuse),
      Plane(<<U(0), U(0), U(5)>>, <<U(2), U(0), U(0)>>, <<U(0), U(2), U(0)>>, <<U(0), U(0), U(1)>>, MatDiffuse),
      Plane(<<U(0), U(0), U(1)>>, <<U(1), U(0), U(0)>>, <<U(0), U(1), U(0)>>, <<U(0), U(0), U(1)>>, MatGlass),
      Mesh(<<GeomTriangles.skin, GeomTriangles.front, GeomTriangles.near>>, MatDiffuse),
      Mesh(<<GeomTriangles.line, GeomTriangles.point>>, MatGlass) }

main_GeomObjects ==
    { main_Sphere(<<U(0), U(0), U(3)>>, U(1), main_MatGlass),
      main_Sphere(<<U(0), U(0), U(0)>>, U(2), main_MatDiffuse),
      main_Plane(<<U(0), U(0), U(5)>>, <<U(0), U(0), U(1)>>, main_MatDiffuse) }

GeomOrigins == { <<U(x), U(0), U(z)>> : x \in {0, 1}, z \in {0, 3} }

\* Directions in the x-z plane and along y, the zero vector, and what
\* normalize makes of the zero vector (a NaN in every component).
GeomDirections ==
    { <<U(x), U(0), U(z)>> : x \in {0 - 1, 0, 1}, z \in {0 - 1, 0, 1} }
    \cup { <<U(0), U(1), U(0)>>, <<GenNaN, GenNaN, GenNaN>> }

(***************************************************************************)
(* SpecGeom: one intersection query on an object list and a ray            *)
(***************************************************************************)
NoOut == [op |-> "none", i |-> 0, j |-> 0, res |-> None, panic |-> FALSE]

geomVars == <<qgen, qobjs, qro, qrd, qout>>

traceVars == <<tgen, scene_objs, scene_lights, camera, pixel, spp, rngStream, ambStream, rngPos, stack,
               retv, acc, pass, rays, rgb, evalNo, rgb1, ev>>

renderVars == <<task, progress, rows, pixels, img>>

loadVars == <<file, loaded, panic_msg>>

gpuVars == <<overflow_checks, adapter, gpu_scene, samples_per_dispatch, num_dispatches, submitted,
             divisor, obj_i, gpu_spheres, gpu_planes, gpu_tris, scount, pcount, tcount, gpu_panic>>

\* What an intersection query, a pixel evaluation, a render and a load leave alone.
notGeom == <<traceVars, renderVars, loadVars, gpuVars>>

notTrace == <<geomVars, renderVars, loadVars, gpuVars>>

notRender == <<geomVars, loadVars, gpuVars>>

notLoad == <<geomVars, traceVars, renderVars, gpuVars>>

notGpu == <<geomVars, traceVars, renderVars, loadVars>>

IdleRender ==
    /\ task = <<>>
    /\ progress = 0
    /\ rows = <<>>
    /\ pixels = <<>>
    /\ img = <<>>

IdleLoad ==
    /\ file = [gen |-> "none", materials |-> <<>>, objects |-> <<>>]
    /\ loaded = <<>>
    /\ panic_msg = ""

\* The Scene of a GPU render: its objects and its render settings.
GpuScene(objects, lights, width, height, samples, gpu_workload) ==
    [objects |-> objects, lights |-> lights,
     render |-> [width |-> width, height |-> height, samples |-> samples,
                 gpu_workload |-> gpu_workload]]

\* Option<u64>
NoneU == [some |-> FALSE, v |-> 0]

SomeU(v) == [some |-> TRUE, v |-> v]

IdleGpu ==
    /\ overflow_checks = FALSE
    /\ adapter = "none"
    /\ gpu_scene = GpuScene(<<>>, <<>>, 0, 0, 0, NoneU)
    /\ samples_per_dispatch = 0
    /\ num_dispatches = 0
    /\ submitted = <<>>
    /\ divisor = 0
    /\ obj_i = 0
    /\ gpu_spheres = <<>>
    /\ gpu_planes = <<>>
    /\ gpu_tris = <<>>
    /\ scount = 0
    /\ pcount = 0
    /\ tcount = 0
    /\ gpu_panic = ""

InitGeom ==
    /\ qgen \in {"renderer", "main"}
    /\ qobjs \in SeqsUpTo(IF qgen = "renderer" THEN GeomObjects ELSE main_GeomObjects, MaxObjs)
    /\ qro \in GeomOrigins
    /\ qrd \in GeomDirections
    /\ qout = NoOut

IdleGeom ==
    /\ qgen = "none"
    /\ qobjs = <<>>
    /\ qro = ZeroVec
    /\ qrd = ZeroVec
    /\ qout = NoOut

\* Object::hit on one object of the list.
G_Object_hit ==
    /\ pc = "geom" /\ qgen = "renderer"
    /\ \E i \in 1..Len(qobjs) :
          qout' = [op |-> qobjs[i].kind, i |-> i, j |-> 0,
                  res |-> Object_hit(qobjs[i], qro, qrd), panic |-> FALSE]
    /\ pc' = "done"
    /\ UNCHANGED <<nanNeg, qgen, qobjs, qro, qrd>>
    /\ UNCHANGED notGeom

\* triangle_intersect on one triangle of a mesh of the list.
G_triangle_intersect ==
    /\ pc = "geom" /\ qgen = "renderer"
    /\ \E i \in 1..Len(qobjs) :
          /\ qobjs[i].kind = "Mesh"
          /\ \E j \in 1..Len(qobjs[i].triangles) :
                qout' = The({ [op |-> "Triangle", i |-> i, j |-> j,
                             res |-> IF r.some THEN Some(r.t, ZeroVec, NoMaterial) ELSE None,
                             panic |-> FALSE]
                            : r \in {triangle_intersect(qobjs[i].triangles[j], qro, qrd)} })
    /\ pc' = "done"
    /\ UNCHANGED <<nanNeg, qgen, qobjs, qro, qrd>>
    /\ UNCHANGED notGeom

G_intersect_closest ==
    /\ pc = "geom" /\ qgen = "renderer"
    /\ qout' = [op |-> "closest", i |-> 0, j |-> 0,
               res |-> intersect_closest(qro, qrd, qobjs), panic |-> FALSE]
    /\ pc' = "done"
    /\ UNCHANGED <<nanNeg, qgen, qobjs, qro, qrd>>
    /\ UNCHANGED notGeom

G_main_intersect ==
    /\ pc = "geom" /\ qgen = "main"
    /\ \E i \in 1..Len(qobjs) :
          qout' = [op |-> qobjs[i].kind, i |-> i, j |-> 0,
                  res |-> main_intersect(qobjs[i], qro, qrd), panic |-> FALSE]
    /\ pc' = "done"
    /\ UNCHANGED <<nanNeg, qgen, qobjs, qro, qrd>>
    /\ UNCHANGED notGeom

G_main_intersect_closest ==
    /\ pc = "geom" /\ qgen = "main"
    /\ qout' = The({ [op |-> "closest", i |-> 0, j |-> 0, res |-> r.opt, panic |-> r.panic]
                   : r \in {main_intersect_closest(qro, qrd, qobjs)} })
    /\ pc' = "done"
    /\ UNCHANGED <<nanNeg, qgen, qobjs, qro, qrd>>
    /\ UNCHANGED notGeom

NextGeom ==
    \/ G_Object_hit
    \/ G_triangle_intersect
    \/ G_intersect_closest
    \/ G_main_intersect
    \/ G_main_intersect_closest

(***************************************************************************)
(* Inputs of a pixel evaluation: scenes, cameras, streams of draws         *)
(***************************************************************************)
Light(pos, u, v, intensity) == [pos |-> pos, u |-> u, v |-> v, intensity |-> intensity]

\* A glass whose inside is a scattering medium.
MatFog == Material(<<9000, 9000, 9000>>, 0, 0, 15000, 5000, 0)

\* A stored roughness and metallic above the range the shading accepts: a
\* rough metal after the clamps.
MatRough == Material(<<8000, 4000, 4000>>, 15000, 3 * ONE, ONE, 0, 0)

\* A dark surface: its largest colour channel is 0.3.
MatDark == Material(<<3000, 2000, 1000>>, 0, ONE, ONE, 0, 0)

\* A surface whose colour channels are all 0.
MatBlack == Material(<<0, 0, 0>>, 0, ONE, ONE, 0, 0)

\* main.rs: a rough dielectric (ior 1.5) and a rough metal.
main_MatFrosted == main_Material(<<8000, 8000, 8000>>, 0, 5000, 15000)

main_MatMetal == main_Material(<<8000, 8000, 8000>>, ONE, 5000, 15000)

\* An area light at z = 2 facing +z.
TheLights == << Light(<<U(0), U(0), U(2)>>, <<U(1), U(0), U(0)>>, <<U(0), U(1), U(0)>>,
                      <<U(10), U(10), U(10)>>) >>

\* The same with a second light at z = 2 that faces -z.
TwoLights == Append(TheLights, Light(<<U(0), U(0), U(2)>>, <<U(0), U(1), U(0)>>, <<U(1), U(0), U(0)>>,
                                     <<U(5), U(5), U(5)>>))

\* Scenes of the modular generation: [objs, lights].
Scenes ==
    [ empty    |-> [objs |-> <<>>, lights |-> TheLights],
      corridor |-> [objs |-> << Plane(<<U(0), U(0), U(4)>>, <<U(3), U(0), U(0)>>, <<U(0), U(3), U(0)>>,
                                      <<U(0), U(0), U(1)>>, MatRough),
                                Plane(<<U(0), U(0), U(0 - 1)>>, <<U(3), U(0), U(0)>>, <<U(0), U(3), U(0)>>,
                                      <<U(0), U(0), U(1)>>, MatDiffuse) >>,
                    lights |-> TheLights],
      glass    |-> [objs |-> << Plane(<<U(0), U(0), U(2)>>, <<U(3), U(0), U(0)>>, <<U(0), U(3), U(0)>>,
                                      <<U(0), U(0), U(1)>>, MatGlass),
                                Plane(<<U(0), U(0), U(4)>>, <<U(3), U(0), U(0)>>, <<U(0), U(3), U(0)>>,
                                      <<U(0), U(0), U(1)>>, MatDiffuse) >>,
                    lights |-> <<>>],
      fog      |-> [objs |-> << Sphere(<<U(0), U(0), U(3)>>, U(1), MatFog),
                                Plane(<<U(0), U(0), U(6)>>, <<U(3), U(0), U(0)>>, <<U(0), U(3), U(0)>>,
                                      <<U(0), U(0), U(1)>>, MatDiffuse) >>,
                    lights |-> TheLights],
      cellar   |-> [objs |-> << Plane(<<U(0), U(0), U(4)>>, <<U(20), U(0), U(0)>>, <<U(0), U(20), U(0)>>,
                                      <<U(0), U(0), U(1)>>, MatDark),
                                Plane(<<U(0), U(0), U(0 - 1)>>, <<U(20), U(0), U(0)>>, <<U(0), U(20), U(0)>>,
                                      <<U(0), U(0), U(1)>>, MatBlack) >>,
                    lights |-> TwoLights],
      prism    |-> [objs |-> << Mesh(<< Triangle(<<U(0 - 6), U(0 - 6), U(9)>>, <<U(6), U(0 - 6), U(0 - 3)>>,
                                                 <<U(0), U(9), U(3)>>, <<7071, 0, 7071>>) >>,
                                     MatGlass) >>,
                    lights |-> <<>>] ]

\* Scenes of main.rs: [objs, lights]; the one light of main.rs is lights[1].
main_Scenes ==
    [ empty    |-> [objs |-> <<>>, lights |-> TheLights],
      corridor |-> [objs |-> << main_Plane(<<U(0), U(0), U(4)>>, <<U(0), U(0), U(0 - 1)>>, main_MatDiffuse),
                                main_Plane(<<U(0), U(0), U(0 - 1)>>, <<U(0), U(0), U(1)>>, main_MatDiffuse) >>,
                    lights |-> TheLights],
      glass    |-> [objs |-> << main_Plane(<<U(0), U(0), U(4)>>, <<U(0), U(0), U(0 - 1)>>, main_MatGlass),
                                main_Plane(<<U(0), U(0), U(0 - 1)>>, <<U(0), U(0), U(1)>>, main_MatGlass) >>,
                    lights |-> TheLights],
      sphere   |-> [objs |-> << main_Sphere(<<U(0), U(0), U(3)>>, U(1), main_MatGlass) >>,
                    lights |-> TheLights],
      frosted  |-> [objs |-> << main_Plane(<<U(0), U(0), U(4)>>, <<U(0), U(0), U(0 - 1)>>, main_MatFrosted),
                                main_Plane(<<U(0), U(0), U(0 - 1)>>, <<U(0), U(0), U(1)>>, main_MatMetal) >>,
                    lights |-> TheLights] ]

\* Image width and height of an evaluation.
ImageSide == 4

\* Largest configured samples-per-pixel count.
MaxSamples == 2

Cameras ==
    { Camera(ImageSide, ImageSide, ONE, ONE, ZeroVec, <<ONE, 0, 0>>, <<0, ONE, 0>>, <<0, 0, ONE>>,
             U(3), aperture) : aperture \in {0, ONE} }

Pixels == { <<ImageSide \div 2, ImageSide \div 2>>, <<ImageSide \div 2 - 1, ImageSide \div 2>> }

\* Streams of draws from [0, 1), repeated cyclically.
Streams == { <<0>>, <<5000>>, <<0, 0, 5000, 5000>> }

AmbientStreams == { <<0>>, <<0, 5000, 5000, 2500>> }

(***************************************************************************)
(* Spec: a worker evaluates a pixel, then evaluates it again with its      *)
(* generator rewound to the same stream                                    *)
(***************************************************************************)
NoRet == [some |-> FALSE, v |-> ZeroVec]

NoEv ==
    [op |-> "none", f |-> NoFrame, branch |-> "none", ret |-> FALSE, value |-> ZeroVec,
     call |-> NoFrame, queries |-> 0, mat |-> NoMaterial, next_media |-> NoneM,
     rng |-> 0, amb |-> 0]

\* What a step of frame f did, from generator positions P, as a record.
Ev(op, f, step, P) ==
    [op |-> op, f |-> f, branch |-> step.branch, ret |-> step.ret, value |-> step.value,
     call |-> step.call, queries |-> step.queries, mat |-> step.mat,
     next_media |-> step.next_media,
     rng |-> step.r.rng - P.rng, amb |-> step.r.amb - P.amb]

\* A frame of the call stack: an invocation that is about to run ("call")
\* or that waits for its recursive call ("wait").
Entry(f) == [f |-> f, st |-> "call", branch |-> "none", saved |-> NoSaved]

Top == stack[Len(stack)]

Pop == SubSeq(stack, 1, Len(stack) - 1)

InitTrace ==
    /\ tgen \in {"renderer", "main"}
    /\ \E s \in (IF tgen = "renderer" THEN {Scenes[n] : n \in DOMAIN Scenes}
                                    ELSE {main_Scenes[n] : n \in DOMAIN main_Scenes}) :
          scene_objs = s.objs /\ scene_lights = s.lights
    /\ camera \in Cameras
    /\ pixel = <<0, 0>>
    /\ spp \in 0..MaxSamples
    /\ rngStream = <<0>>
    /\ ambStream = <<0>>
    /\ rngPos = [rng |-> 0, amb |-> 0]
    /\ stack = <<>>
    /\ retv = NoRet
    /\ acc = ZeroVec
    /\ pass = 0
    /\ rays = 0
    /\ rgb = <<>>
    /\ evalNo = 1
    /\ rgb1 = <<>>
    /\ ev = NoEv

\* No scene is loaded.
IdleScene ==
    /\ tgen = "none"
    /\ scene_objs = <<>>
    /\ scene_lights = <<>>
    /\ camera = Camera(0, 0, 0, 0, ZeroVec, ZeroVec, ZeroVec, ZeroVec, 0, 0)
    /\ spp = 0
    /\ rngStream = <<0>>
    /\ ambStream = <<0>>

\* No pixel is being evaluated.
IdleEval ==
    /\ pixel = <<0, 0>>
    /\ rngPos = [rng |-> 0, amb |-> 0]
    /\ stack = <<>>
    /\ retv = NoRet
    /\ acc = ZeroVec
    /\ pass = 0
    /\ rays = 0
    /\ rgb = <<>>
    /\ evalNo = 1
    /\ rgb1 = <<>>
    /\ ev = NoEv

IdleTrace == IdleScene /\ IdleEval

\* A trace that stores the clamped material back into the object it hit.
scene_written_back(step, objs_) ==
    [i \in DOMAIN objs_ |->
        IF step.mat = clamped(objs_[i].material)
        THEN [objs_[i] EXCEPT !.material = step.mat]
        ELSE objs_[i]]

\* trace holds objs: &[Object]; the hit material it clamps is its own copy.
scene_after(step, objs_) == objs_

\* The stack, return value and trace record after the top frame took step.
Took(op, step_) ==
    \E step \in {step_} :
    /\ ev' = Ev(op, Top.f, step, rngPos)
    /\ rngPos' = step.r
    /\ scene_objs' = scene_after(step, scene_objs)
    /\ IF step.ret
       THEN /\ stack' = Pop
            /\ retv' = [some |-> TRUE, v |-> step.value]
       ELSE /\ stack' = Append([stack EXCEPT ![Len(stack)] =
                                   [f |-> Top.f, st |-> "wait", branch |-> step.branch,
                                    saved |-> step.saved]],
                                Entry(step.call))
            /\ retv' = NoRet

\* The caller of pixel_color sets the focus distance by autofocus.
r_Autofocus ==
    /\ pc = "focus" /\ tgen = "renderer"
    /\ camera' = [camera EXCEPT !.focus = autofocus(camera, scene_objs)]
    /\ pc' = "idle"
    /\ UNCHANGED <<nanNeg, tgen, scene_objs, scene_lights, pixel, spp, rngStream, ambStream, rngPos,
                   stack, retv, acc, pass, rays, rgb, evalNo, rgb1, ev>>
    /\ UNCHANGED notTrace

\* A worker calls pixel_color for a pixel, passing its generator; the
\* thread-local generator of the worker's thread is in some state.
r_Pixel ==
    /\ pc = "idle" /\ tgen = "renderer"
    /\ pixel' \in Pixels
    /\ rngStream' \in Streams
    /\ ambStream' \in AmbientStreams
    /\ pc' = "pixel"
    /\ UNCHANGED <<nanNeg, tgen, scene_objs, scene_lights, camera, spp, rngPos,
                   stack, retv, acc, pass, rays, rgb, evalNo, rgb1, ev>>
    /\ UNCHANGED notTrace

\* pixel_color: one pass of the sample loop, up to the call of trace.
r_Sample ==
    /\ pc = "pixel" /\ tgen = "renderer" /\ pass < spp
    /\ \E p \in {primary_ray(pixel[1], pixel[2], camera, rngPos)} :
          /\ stack' = <<Entry(Frame(p.v[1], p.v[2], 0, 0, NoneM))>>
          /\ rngPos' = p.r
    /\ rays' = rays + 1
    /\ pc' = "trace"
    /\ UNCHANGED <<nanNeg, tgen, scene_objs, scene_lights, camera, pixel, spp, rngStream, ambStream,
                   retv, acc, pass, rgb, evalNo, rgb1, ev>>
    /\ UNCHANGED notTrace

\* trace, from its first line.
r_Enter ==
    /\ pc = "trace" /\ tgen = "renderer" /\ stack # <<>> /\ Top.st = "call"
    /\ Took("enter", trace_enter(Top.f, scene_objs, scene_lights, rngPos))
    /\ UNCHANGED <<nanNeg, pc, tgen, scene_lights, camera, pixel, spp, rngStream, ambStream,
                   acc, pass, rays, rgb, evalNo, rgb1>>
    /\ UNCHANGED notTrace

\* trace, from the return of its recursive call.
r_Resume ==
    /\ pc = "trace" /\ tgen = "renderer" /\ stack # <<>> /\ Top.st = "wait" /\ retv.some
    /\ Took("resume", Return(Top.branch, trace_resume(Top.f, Top.branch, Top.saved, retv.v),
                             rngPos, 0, NoMaterial, NoneM))
    /\ UNCHANGED <<nanNeg, pc, tgen, scene_lights, camera, pixel, spp, rngStream, ambStream,
                   acc, pass, rays, rgb, evalNo, rgb1>>
    /\ UNCHANGED notTrace

\* pixel_color: col = col + trace(...)
r_Accumulate ==
    /\ pc = "trace" /\ tgen = "renderer" /\ stack = <<>> /\ retv.some
    /\ acc' = add(acc, retv.v)
    /\ retv' = NoRet
    /\ pass' = pass + 1
    /\ pc' = "pixel"
    /\ UNCHANGED <<nanNeg, tgen, scene_objs, scene_lights, camera, pixel, spp, rngStream, ambStream, rngPos,
                   stack, rays, rgb, evalNo, rgb1, ev>>
    /\ UNCHANGED notTrace

\* pixel_color: after the sample loop.
r_Finish ==
    /\ pc = "pixel" /\ tgen = "renderer" /\ pass >= spp
    /\ rgb' = pixel_rgb(acc, spp)
    /\ pc' = "done"
    /\ UNCHANGED <<nanNeg, tgen, scene_objs, scene_lights, camera, pixel, spp, rngStream, ambStream, rngPos,
                   stack, retv, acc, pass, rays, evalNo, rgb1, ev>>
    /\ UNCHANGED notTrace

\* The caller evaluates the same pixel again, passing a generator that
\* produces the same stream; the thread-local generator is where it was left.
Reevaluate ==
    /\ pc = "done" /\ tgen = "renderer" /\ evalNo = 1
    /\ evalNo' = 2
    /\ rgb1' = rgb
    /\ rgb' = <<>>
    /\ rngPos' = [rngPos EXCEPT !.rng = 0]
    /\ acc' = ZeroVec
    /\ pass' = 0
    /\ rays' = 0
    /\ ev' = NoEv
    /\ pc' = "pixel"
    /\ UNCHANGED <<nanNeg, tgen, scene_objs, scene_lights, camera, pixel, spp, rngStream, ambStream,
                   stack, retv>>
    /\ UNCHANGED notTrace

\* main: the autofocus before the pixel loop.
m_Autofocus ==
    /\ pc = "focus" /\ tgen = "main"
    /\ \E a \in {main_autofocus(camera, scene_objs)} :
          IF a.panic THEN pc' = "panic" /\ UNCHANGED camera
          ELSE pc' = "idle" /\ camera' = [camera EXCEPT !.focus = a.v]
    /\ UNCHANGED <<nanNeg, tgen, scene_objs, scene_lights, pixel, spp, rngStream, ambStream, rngPos,
                   stack, retv, acc, pass, rays, rgb, evalNo, rgb1, ev>>
    /\ UNCHANGED notTrace

\* main: a row task starts the pixel x of its row y; the thread-local
\* generator of the task's thread is in some state.
m_Pixel ==
    /\ pc = "idle" /\ tgen = "main"
    /\ pixel' \in Pixels
    /\ ambStream' \in AmbientStreams
    /\ pc' = "pixel"
    /\ UNCHANGED <<nanNeg, tgen, scene_objs, scene_lights, camera, spp, rngStream, rngPos,
                   stack, retv, acc, pass, rays, rgb, evalNo, rgb1, ev>>
    /\ UNCHANGED notTrace

\* main: one pass of the inner sample loop, up to the call of trace.
m_Sample ==
    /\ pc = "pixel" /\ tgen = "main" /\ pass < sqrt_samples(spp) * sqrt_samples(spp)
    /\ \E p \in {main_primary_ray(pixel[1], pixel[2], pass \div sqrt_samples(spp),
                                   pass % sqrt_samples(spp), spp, camera, rngPos)} :
          /\ stack' = <<Entry(Frame(p.v[1], p.v[2], 0, 0, NoneM))>>
          /\ rngPos' = p.r
    /\ rays' = rays + 1
    /\ pc' = "trace"
    /\ UNCHANGED <<nanNeg, tgen, scene_objs, scene_lights, camera, pixel, spp, rngStream, ambStream,
                   retv, acc, pass, rgb, evalNo, rgb1, ev>>
    /\ UNCHANGED notTrace

m_Enter ==
    /\ pc = "trace" /\ tgen = "main" /\ stack # <<>> /\ Top.st = "call"
    /\ Took("enter", main_trace_enter(Top.f, scene_objs, scene_lights[1], rngPos))
    /\ UNCHANGED <<nanNeg, pc, tgen, scene_lights, camera, pixel, spp, rngStream, ambStream,
                   acc, pass, rays, rgb, evalNo, rgb1>>
    /\ UNCHANGED notTrace

m_Resume ==
    /\ pc = "trace" /\ tgen = "main" /\ stack # <<>> /\ Top.st = "wait" /\ retv.some
    /\ Took("resume", main_trace_resume(Top.f, Top.branch, Top.saved, retv.v, rngPos))
    /\ UNCHANGED <<nanNeg, pc, tgen, scene_lights, camera, pixel, spp, rngStream, ambStream,
                   acc, pass, rays, rgb, evalNo, rgb1>>
    /\ UNCHANGED notTrace

\* main: col = col.add(trace(...))
m_Accumulate ==
    /\ pc = "trace" /\ tgen = "main" /\ stack = <<>> /\ retv.some
    /\ acc' = add(acc, retv.v)
    /\ retv' = NoRet
    /\ pass' = pass + 1
    /\ pc' = "pixel"
    /\ UNCHANGED <<nanNeg, tgen, scene_objs, scene_lights, camera, pixel, spp, rngStream, ambStream, rngPos,
                   stack, rays, rgb, evalNo, rgb1, ev>>
    /\ UNCHANGED notTrace

\* main: after the sample loops.
m_Finish ==
    /\ pc = "pixel" /\ tgen = "main" /\ pass >= sqrt_samples(spp) * sqrt_samples(spp)
    /\ rgb' = main_pixel_rgb(acc, spp)
    /\ pc' = "done"
    /\ UNCHANGED <<nanNeg, tgen, scene_objs, scene_lights, camera, pixel, spp, rngStream, ambStream, rngPos,
                   stack, retv, acc, pass, rays, evalNo, rgb1, ev>>
    /\ UNCHANGED notTrace

vars == <<nanNeg, pc, qgen, qobjs, qro, qrd, qout, tgen, scene_objs, scene_lights, camera, pixel, spp,
          rngStream, ambStream, rngPos, stack, retv, acc, pass, rays, rgb, evalNo, rgb1, ev,
          task, progress, rows, pixels, img, file, loaded, panic_msg,
          overflow_checks, adapter, gpu_scene, samples_per_dispatch, num_dispatches, submitted,
          divisor, obj_i, gpu_spheres, gpu_planes, gpu_tris, scount, pcount, tcount, gpu_panic>>

Init ==
    nanNeg \in BOOLEAN /\ pc = "focus" /\ IdleGeom /\ InitTrace /\ IdleRender /\ IdleLoad /\ IdleGpu

Next ==
    \/ r_Autofocus
    \/ m_Autofocus
    \/ r_Pixel
    \/ m_Pixel
    \/ r_Sample
    \/ r_Enter
    \/ r_Resume
    \/ r_Accumulate
    \/ r_Finish
    \/ Reevaluate
    \/ m_Sample
    \/ m_Enter
    \/ m_Resume
    \/ m_Accumulate
    \/ m_Finish

Spec == Init /\ [][Next]_vars

(***************************************************************************)
(* SpecGeom                                                                *)
(***************************************************************************)
InitSpecGeom ==
    nanNeg \in BOOLEAN /\ pc = "geom" /\ InitGeom /\ IdleTrace /\ IdleRender /\ IdleLoad /\ IdleGpu

SpecGeom == InitSpecGeom /\ [][NextGeom]_vars


(***************************************************************************)
(* SpecRender: the row-parallel pixel loop of main.rs                      *)
(*                                                                         *)
(* One task per row runs on the thread pool; a task may start, compute a   *)
(* pixel or return whenever the scheduler lets it.  The scene is empty and *)
(* one sample is taken per pixel, so that trace returns at once.           *)
(***************************************************************************)
\* Largest image rendered.
MaxWidth == 2

MaxHeight == 3

\* What the thread-local generators produce, repeated cyclically.
RenderStreams == { <<0>>, <<0, 5000>> }

\* The body of for x in 0..width, for samples = 1 and a primary ray whose
\* trace makes no recursive call: [v: the entry pushed on the row, r].
main_row_entry(x, y, c, objects, light, R) ==
    The({ The({ Ret([key |-> <<x, y>>, rgb |-> main_pixel_rgb(add(ZeroVec, t.value), 1)], t.r)
        : t \in {main_trace_enter(Frame(p.v[1], p.v[2], 0, 0, NoneM), objects, light, p.r)} })
        : p \in {main_primary_ray(x, y, 0, 0, 1, c, R)} })

\* RgbImage::new(width, height): every pixel black; puts counts the calls
\* of put_pixel on the pixel.
RgbImage_new(width, height) ==
    [p \in (0..(width - 1)) \X (0..(height - 1)) |-> [rgb |-> <<0, 0, 0>>, puts |-> 0]]

\* A put_pixel that writes every entry into the first row.
put_pixel_first_row(image, x, y, rgb_) ==
    [image EXCEPT ![<<x, 0>>] = [rgb |-> rgb_, puts |-> @.puts + 1]]

\* img.put_pixel(x, y, Rgb(rgb))
put_pixel(image, x, y, rgb_) ==
    [image EXCEPT ![<<x, y>>] = [rgb |-> rgb_, puts |-> @.puts + 1]]

\* flat_map(...).collect(): the rows in the order of y, from row y on.
RECURSIVE collect(_, _, _)
collect(rows_, y, height) ==
    IF y >= height THEN <<>> ELSE rows_[y] \o collect(rows_, y + 1, height)

InitRender ==
    /\ tgen = "main"
    /\ scene_objs = <<>>
    /\ scene_lights = TheLights
    /\ spp = 1
    /\ rngStream = <<0>>
    /\ ambStream \in RenderStreams
    /\ \E width \in 1..MaxWidth, height \in 1..MaxHeight :
          /\ camera = Camera(width, height, FDiv(AsF32(width), AsF32(height)), ONE, ZeroVec,
                             <<ONE, 0, 0>>, <<0, ONE, 0>>, <<0, 0, ONE>>, 5 * ONE, 0)
          /\ task = [y \in 0..(height - 1) |->
                        [st |-> "todo", pos |-> 0, R0 |-> [rng |-> 0, amb |-> 0],
                         R |-> [rng |-> 0, amb |-> 0]]]
          /\ rows = [y \in 0..(height - 1) |-> <<>>]
          /\ img = RgbImage_new(width, height)
    /\ progress = 0
    /\ pixels = <<>>

\* The task of row y starts: progress.inc(1); let mut rng = thread_rng().
\* The generator of the thread that runs the task is at some position.
row_start ==
    \E y \in DOMAIN task :
        /\ pc = "render" /\ task[y].st = "todo"
        /\ progress' = progress + 1
        /\ \E a \in 0..(Len(ambStream) - 1) :
              task' = [task EXCEPT ![y] = [st |-> "run", pos |-> progress + 1,
                                           R0 |-> [rng |-> 0, amb |-> a],
                                           R |-> [rng |-> 0, amb |-> a]]]
        /\ UNCHANGED <<nanNeg, pc, rows, pixels, img>>
        /\ UNCHANGED <<traceVars, notRender>>

\* One pass of for x in 0..width in the task of row y, up to row.push.
row_pixel ==
    \E y \in DOMAIN task :
        /\ pc = "render" /\ task[y].st = "run" /\ Len(rows[y]) < camera.w
        /\ \E e \in {main_row_entry(Len(rows[y]), y, camera, scene_objs, scene_lights[1], task[y].R)} :
              /\ rows' = [rows EXCEPT ![y] = Append(@, e.v)]
              /\ task' = [task EXCEPT ![y].R = e.r]
        /\ UNCHANGED <<nanNeg, pc, progress, pixels, img>>
        /\ UNCHANGED <<traceVars, notRender>>

\* The task of row y returns its row.
row_return ==
    \E y \in DOMAIN task :
        /\ pc = "render" /\ task[y].st = "run" /\ Len(rows[y]) >= camera.w
        /\ task' = [task EXCEPT ![y].st = "done"]
        /\ UNCHANGED <<nanNeg, pc, progress, rows, pixels, img>>
        /\ UNCHANGED <<traceVars, notRender>>

\* collect() returns once every task has returned.
rows_collected ==
    /\ pc = "render" /\ \A y \in DOMAIN task : task[y].st = "done"
    /\ pixels' = collect(rows, 0, camera.h)
    /\ pc' = "write"
    /\ UNCHANGED <<nanNeg, task, progress, rows, img>>
    /\ UNCHANGED <<traceVars, notRender>>

\* One pass of the serial loop for ((x, y), rgb) in pixels.
write_pixel ==
    /\ pc = "write" /\ pixels # <<>>
    /\ img' = put_pixel(img, Head(pixels).key[1], Head(pixels).key[2], Head(pixels).rgb)
    /\ pixels' = Tail(pixels)
    /\ UNCHANGED <<nanNeg, pc, task, progress, rows>>
    /\ UNCHANGED <<traceVars, notRender>>

\* progress.finish_with_message; img.save
image_saved ==
    /\ pc = "write" /\ pixels = <<>>
    /\ pc' = "saved"
    /\ UNCHANGED <<nanNeg, task, progress, rows, pixels, img>>
    /\ UNCHANGED <<traceVars, notRender>>

NextRender ==
    \/ row_start
    \/ row_pixel
    \/ row_return
    \/ rows_collected
    \/ write_pixel
    \/ image_saved

InitSpecRender ==
    nanNeg \in BOOLEAN /\ pc = "render" /\ IdleGeom /\ InitRender /\ IdleEval /\ IdleLoad /\ IdleGpu

SpecRender == InitSpecRender /\ [][NextRender]_vars

(***************************************************************************)
(* SpecLoad: scene.rs load and main.rs load_scene                          *)
(***************************************************************************)
\* Longest object list of a scene description.
MaxLoadObjs == 2

\* HashMap::get
get(m, name) == [some |-> name \in DOMAIN m, key |-> name]

\* scene.rs: the library of materials made from the JSON.
load_materials(file_materials) ==
    [name \in DOMAIN file_materials |->
        The({ Material(<<m.rgb[1], m.rgb[2], m.rgb[3]>>, m.metallic, m.roughness, m.ior,
                       m.volume_density, m.volume_anisotropy)
            : m \in {file_materials[name]} })]

\* *materials.get(&name).unwrap_or(&default_mat)
load_material(materials, name) ==
    The({ IF found.some THEN materials[found.key] ELSE default_mat
        : found \in {get(materials, name)} })

\* tobj::load_obj: the corner positions of the triangles of the file's
\* models, in the order of the indices.
load_obj(files, name) ==
    IF name \in DOMAIN files THEN [ok |-> TRUE, v |-> files[name]]
    ELSE [ok |-> FALSE, v |-> <<>>]

\* scene.rs: one pass of for o in file.objects: [panic, obj: the object pushed].
load_object(o, materials, files) ==
    IF o.kind = "Sphere"
    THEN The({ [panic |-> "", obj |-> Sphere(o.center, o.radius, material)]
             : material \in {load_material(materials, o.mat)} })
    ELSE IF o.kind = "Plane"
    THEN The({ The({ [panic |-> "", obj |-> Plane(o.point, o.u, o.v, normal, material)]
             : normal \in {normalize(cross(o.u, o.v))} })
             : material \in {load_material(materials, o.mat)} })
    ELSE The({ The({ IF ~models.ok THEN [panic |-> "load obj", obj |-> <<>>]
                   ELSE [panic |-> "",
                         obj |-> [kind |-> "Mesh",
                                  triangles |-> [i \in DOMAIN models.v |->
                                      [v0 |-> models.v[i][1], v1 |-> models.v[i][2],
                                       v2 |-> models.v[i][3], material |-> material]]]]
             : models \in {load_obj(files, o.file)} })
             : material \in {load_material(materials, o.mat)} })

\* main.rs: to_material
to_material(j) == main_Material(<<j.rgb[1], j.rgb[2], j.rgb[3]>>, j.metallic, j.roughness, j.ior)

\* main.rs: the closure mat_of: [panic, v].
mat_of(materials, name) ==
    The({ IF found.some THEN [panic |-> "", v |-> to_material(materials[found.key])]
        ELSE [panic |-> "No material", v |-> <<>>]
        : found \in {get(materials, name)} })

\* main.rs: one pass of for o in sc.objects: [panic, obj: the object pushed].
main_load_object(o, materials) ==
    The({ IF material.panic # "" THEN [panic |-> material.panic, obj |-> <<>>]
        ELSE IF o.kind = "Sphere"
        THEN [panic |-> "", obj |-> main_Sphere(o.center, o.radius, material.v)]
        ELSE [panic |-> "", obj |-> main_Plane(o.point, o.normal, material.v)]
        : material \in {mat_of(materials, o.mat)} })

\* --- scene descriptions ---
MaterialJson(rgb_, metallic, roughness, ior, volume_density, volume_anisotropy) ==
    [rgb |-> rgb_, metallic |-> metallic, roughness |-> roughness, ior |-> ior,
     volume_density |-> volume_density, volume_anisotropy |-> volume_anisotropy]

main_MaterialJson(rgb_, metallic, roughness, ior) ==
    [rgb |-> rgb_, metallic |-> metallic, roughness |-> roughness, ior |-> ior]

\* The material names objects use; the tables define "white" or nothing.
LoadNames == {"white", "lost"}

LoadTables ==
    { "white" :> MaterialJson(<<8000, 8000, 8000>>, 0, ONE, ONE, 0, 0),
      [name \in {} |-> 0] }

main_LoadTables ==
    { "white" :> main_MaterialJson(<<8000, 8000, 8000>>, 0, ONE, ONE),
      [name \in {} |-> 0] }

\* The .obj files on disk: one holds one triangle.
ObjFiles ==
    "tri.obj" :> << << <<U(0 - 1), U(0 - 1), U(4)>>, <<U(1), U(0 - 1), U(4)>>, <<U(0), U(1), U(4)>> >> >>

LoadObjects ==
    { [kind |-> "Sphere", center |-> <<U(0), U(0), U(3)>>, radius |-> U(1), mat |-> m]
        : m \in LoadNames }
    \cup { [kind |-> "Plane", point |-> <<U(0), U(0), U(5)>>, u |-> <<U(2), U(0), U(0)>>,
            v |-> <<U(0), U(2), U(0)>>, mat |-> m] : m \in LoadNames }
    \cup { [kind |-> "Mesh", file |-> f, mat |-> m]
        : f \in {"tri.obj", "absent.obj"}, m \in LoadNames }

main_LoadObjects ==
    { [kind |-> "Sphere", center |-> <<U(0), U(0), U(3)>>, radius |-> U(1), mat |-> m]
        : m \in LoadNames }
    \cup { [kind |-> "Plane", point |-> <<U(0), U(0), U(5)>>, normal |-> <<U(0), U(0), U(1)>>,
            mat |-> m] : m \in LoadNames }

InitLoad ==
    /\ \E gen \in {"renderer", "main"} :
       \E materials \in (IF gen = "renderer" THEN LoadTables ELSE main_LoadTables) :
       \E objects \in SeqsUpTo(IF gen = "renderer" THEN LoadObjects ELSE main_LoadObjects,
                               MaxLoadObjs) :
          file = [gen |-> gen, materials |-> materials, objects |-> objects]
    /\ loaded = <<>>
    /\ panic_msg = ""

\* The outcome r of one pass of the object loop.
Loaded(r) ==
    IF r.panic # ""
    THEN pc' = "panic" /\ panic_msg' = r.panic /\ UNCHANGED loaded
    ELSE loaded' = Append(loaded, r.obj) /\ UNCHANGED <<pc, panic_msg>>

\* scene.rs load: one pass of for o in file.objects.
load_step ==
    /\ pc = "load" /\ file.gen = "renderer" /\ Len(loaded) < Len(file.objects)
    /\ Loaded(load_object(file.objects[Len(loaded) + 1], load_materials(file.materials), ObjFiles))
    /\ UNCHANGED <<nanNeg, file>>
    /\ UNCHANGED notLoad

\* scene.rs load returns the Scene.
load_return ==
    /\ pc = "load" /\ file.gen = "renderer" /\ Len(loaded) >= Len(file.objects)
    /\ pc' = "loaded"
    /\ UNCHANGED <<nanNeg, file, loaded, panic_msg>>
    /\ UNCHANGED notLoad

\* main.rs load_scene: one pass of for o in sc.objects.
load_scene_step ==
    /\ pc = "load" /\ file.gen = "main" /\ Len(loaded) < Len(file.objects)
    /\ Loaded(main_load_object(file.objects[Len(loaded) + 1], file.materials))
    /\ UNCHANGED <<nanNeg, file>>
    /\ UNCHANGED notLoad

\* main.rs load_scene returns the objects.
load_scene_return ==
    /\ pc = "load" /\ file.gen = "main" /\ Len(loaded) >= Len(file.objects)
    /\ pc' = "loaded"
    /\ UNCHANGED <<nanNeg, file, loaded, panic_msg>>
    /\ UNCHANGED notLoad

NextLoad ==
    \/ load_step
    \/ load_return
    \/ load_scene_step
    \/ load_scene_return

InitSpecLoad ==
    nanNeg \in BOOLEAN /\ pc = "load" /\ IdleGeom /\ IdleTrace /\ IdleRender /\ InitLoad /\ IdleGpu

SpecLoad == InitSpecLoad /\ [][NextLoad]_vars

(***************************************************************************)
(* gpu_renderer.rs: the progressive render                                 *)
(***************************************************************************)
\* The width of u32 in the model: the integers of the model checker end
\* below 2^31, so the words are narrower than the program's and every
\* input is scaled to them.
U32_BITS == 16

RECURSIVE pow2(_)
pow2(n) == IF n <= 0 THEN 1 ELSE 2 * pow2(n - 1)

u32_modulus == pow2(U32_BITS)

\* u32 arithmetic that wraps, as the release build computes it.
wrapping_u32(x) == x % u32_modulus

\* x as u32 of a u64.
as_u32(x) == x % u32_modulus

\* Ord::max and Ord::min of unsigned integers.
umax(a, b) == IF a >= b THEN a ELSE b

umin(a, b) == IF a <= b THEN a ELSE b

\* gpu_renderer.rs detect_gpu_workload, of the device type of the adapter.
detect_gpu_workload(device_type) ==
    IF device_type = "Cpu" THEN 10000000 ELSE 40000000

\* Option::unwrap_or_else
unwrap_or_else(o, d) == IF o.some THEN o.v ELSE d

\* An arithmetic step on u32 whose exact result is x: the value, or the panic
\* of a build with overflow checks when x is out of range.
checked_u32(x, checks, msg) ==
    IF x >= 0 /\ x < u32_modulus
    THEN [panic |-> "", v |-> x]
    ELSE IF checks THEN [panic |-> msg, v |-> 0]
    ELSE [panic |-> "", v |-> wrapping_u32(x)]

\* u32 division: a zero divisor panics in every build.
div_u32(x, y) ==
    IF y = 0
    THEN [panic |-> "attempt to divide by zero", v |-> 0]
    ELSE [panic |-> "", v |-> x \div y]

Plan(panic, spd, n) == [panic |-> panic, samples_per_dispatch |-> spd, num_dispatches |-> n]

\* render_async, "Progressive Render Setup": the samples of one dispatch and
\* the number of dispatches.
render_plan(render, device_type, checks) ==
    The({ IF wh.panic # "" THEN Plan(wh.panic, 0, 0) ELSE
          The({ The({ The({ IF upper.panic # "" THEN Plan(upper.panic, spd, 0) ELSE
                            The({ IF top.panic # "" THEN Plan(top.panic, spd, 0) ELSE
                                  The({ Plan(q.panic, spd, q.v)
                                        : q \in {div_u32(top.v, spd)} })
                                  : top \in {checked_u32(upper.v - 1, checks,
                                                         "attempt to subtract with overflow")} })
                            : upper \in {checked_u32(render.samples + spd, checks,
                                                   "attempt to add with overflow")} })
                      : spd \in
                            {umin(umax(as_u32(target_workload_per_dispatch \div umax(pixel_count, 1)), 1),
                                 render.samples)} })
                : target_workload_per_dispatch \in
                      {unwrap_or_else(render.gpu_workload, detect_gpu_workload(device_type))},
                  pixel_count \in {wh.v} })
          : wh \in {checked_u32(render.width * render.height, checks,
                                "attempt to multiply with overflow")} })

MAX_SPHERES == 32

MAX_PLANES == 32

MAX_TRIS == 8192

Vec4(a) == <<a[1], a[2], a[3], 0>>

SphereData(s) ==
    [center |-> Vec4(s.center), color |-> Vec4(s.material.color), radius |-> s.radius,
     metallic |-> s.material.metallic, roughness |-> s.material.roughness,
     ior |-> s.material.ior]

PlaneData(p) ==
    [point |-> Vec4(p.point), normal |-> Vec4(p.normal), u |-> Vec4(p.u), v |-> Vec4(p.v),
     color |-> Vec4(p.material.color), metallic |-> p.material.metallic,
     roughness |-> p.material.roughness, ior |-> p.material.ior, pad |-> 0]

TriangleData(tri, m) ==
    [v0 |-> Vec4(tri.v0), v1 |-> Vec4(tri.v1), v2 |-> Vec4(tri.v2), normal |-> Vec4(tri.normal),
     color |-> Vec4(m.material.color), metallic |-> m.material.metallic,
     roughness |-> m.material.roughness, ior |-> m.material.ior, pad |-> 0]

\* bytemuck zeroed
SphereData_zeroed ==
    [center |-> <<0, 0, 0, 0>>, color |-> <<0, 0, 0, 0>>, radius |-> 0,
     metallic |-> 0, roughness |-> 0, ior |-> 0]

PlaneData_zeroed ==
    [point |-> <<0, 0, 0, 0>>, normal |-> <<0, 0, 0, 0>>, u |-> <<0, 0, 0, 0>>,
     v |-> <<0, 0, 0, 0>>, color |-> <<0, 0, 0, 0>>, metallic |-> 0,
     roughness |-> 0, ior |-> 0, pad |-> 0]

TriangleData_zeroed ==
    [v0 |-> <<0, 0, 0, 0>>, v1 |-> <<0, 0, 0, 0>>, v2 |-> <<0, 0, 0, 0>>,
     normal |-> <<0, 0, 0, 0>>, color |-> <<0, 0, 0, 0>>, metallic |-> 0,
     roughness |-> 0, ior |-> 0, pad |-> 0]

\* vec![x; n]
vec_of(x, n) == [j \in 1..n |-> x]

\* Vec::truncate
truncate(s, n) == IF n < Len(s) THEN SubSeq(s, 1, n) ELSE s

\* The buffers and counts of get_object_data.
Buffers(ss, ps, ts, sc, pcnt, tc) ==
    [spheres |-> ss, planes |-> ps, tris |-> ts, scount |-> sc, pcount |-> pcnt, tcount |-> tc]

\* A mesh arm that copies every triangle that fits the buffer and counts
\* all of them.
copy_triangles_counting_all(m, b, cap) ==
    The({ Buffers(b.spheres, b.planes,
                  [j \in 1..Len(b.tris) |->
                      IF j > b.tcount /\ j <= b.tcount + taken
                      THEN TriangleData(m.triangles[j - b.tcount], m)
                      ELSE b.tris[j]],
                  b.scount, b.pcount, b.tcount + Len(m.triangles))
          : taken \in {umax(umin(Len(m.triangles), cap - b.tcount), 0)} })

\* get_object_data, the arm Object::Mesh: for tri in &m.triangles copies
\* triangle k into slot tcount + k - 1 and breaks at the first k for which
\* tcount has reached the cap.
copy_triangles(m, b, cap) ==
    The({ Buffers(b.spheres, b.planes,
                  [j \in 1..Len(b.tris) |->
                      IF j > b.tcount /\ j <= b.tcount + taken
                      THEN TriangleData(m.triangles[j - b.tcount], m)
                      ELSE b.tris[j]],
                  b.scount, b.pcount, b.tcount + taken)
          : taken \in {umax(umin(Len(m.triangles), cap - b.tcount), 0)} })

\* get_object_data: one pass of for obj in &scene.objects.
object_data(obj, b) ==
    IF obj.kind = "Sphere" /\ b.scount < MAX_SPHERES
    THEN Buffers([b.spheres EXCEPT ![b.scount + 1] = SphereData(obj)], b.planes, b.tris,
                 b.scount + 1, b.pcount, b.tcount)
    ELSE IF obj.kind = "Plane" /\ b.pcount < MAX_PLANES
    THEN Buffers(b.spheres, [b.planes EXCEPT ![b.pcount + 1] = PlaneData(obj)], b.tris,
                 b.scount, b.pcount + 1, b.tcount)
    ELSE IF obj.kind = "Mesh"
    THEN copy_triangles(obj, b, MAX_TRIS)
    ELSE b

\* The end of get_object_data: a buffer cut to its count, with one zeroed
\* entry pushed when that leaves it empty.
returned(s, n, zeroed) ==
    The({ IF t = <<>> THEN <<zeroed>> ELSE t : t \in {truncate(s, n)} })

\* Inputs: the largest total of samples per pixel configured.
MaxTotalSamples == 5

TheGpuLight == Light(<<U(0), U(2), U(0)>>, <<U(1), U(0), U(0)>>, <<U(0), U(0), U(1)>>,
                     <<U(5), U(5), U(5)>>)

GpuTriangle(k) == Triangle(<<k, 0, 0>>, <<k, ONE, 0>>, <<k, 0, ONE>>, <<0, 0, ONE>>)

GpuSphere(k) == Sphere(<<k, 0, 0>>, ONE, MatDiffuse)

GpuPlane(k) == Plane(<<0, k, 0>>, <<ONE, 0, 0>>, <<0, 0, ONE>>, <<0, ONE, 0>>, MatGlass)

\* More of one kind than its buffer holds, with the other kinds in between.
GpuObjectLists ==
    {<<>>,
     <<GpuSphere(1), Mesh(<<GpuTriangle(1), GpuTriangle(2)>>, MatDiffuse), GpuPlane(1)>>,
     [k \in 1..(MAX_SPHERES + 3) |-> IF k = 5 THEN GpuPlane(k) ELSE GpuSphere(k)],
     [k \in 1..(MAX_PLANES + 3) |-> IF k = 7 THEN GpuSphere(k) ELSE GpuPlane(k)],
     <<Mesh([k \in 1..(MAX_TRIS - 2) |-> GpuTriangle(k)], MatDiffuse),
       GpuSphere(1),
       Mesh([k \in 1..5 |-> GpuTriangle(MAX_TRIS + k)], MatGlass),
       GpuPlane(1),
       Mesh(<<GpuTriangle(1)>>, MatDiffuse)>>}

\* width and height: a small image, an image of no pixels, and one whose
\* pixel count does not fit u32.
GpuSizes ==
    {<<2, 2>>, <<1, 1>>, <<0, 3>>, <<pow2(U32_BITS \div 2), pow2(U32_BITS - U32_BITS \div 2)>>}

\* gpu_workload: unset, or a target per dispatch; the last one, over one
\* pixel, does not fit u32.
GpuWorkloads == {NoneU, SomeU(0), SomeU(4), SomeU(8), SomeU(u32_modulus + 2)}

InitGpu ==
    /\ overflow_checks \in BOOLEAN
    /\ adapter \in {"Cpu", "DiscreteGpu"}
    /\ \/ \E objects \in GpuObjectLists :
             gpu_scene = GpuScene(objects, <<TheGpuLight>>, 2, 2, 4, SomeU(8))
       \/ \E lights \in {<<>>, <<TheGpuLight>>}, size \in GpuSizes,
             samples \in 0..MaxTotalSamples, gpu_workload \in GpuWorkloads :
             gpu_scene = GpuScene(<<>>, lights, size[1], size[2], samples, gpu_workload)
    /\ samples_per_dispatch = 0
    /\ num_dispatches = 0
    /\ submitted = <<>>
    /\ divisor = 0
    /\ obj_i = 0
    /\ gpu_spheres = <<>>
    /\ gpu_planes = <<>>
    /\ gpu_tris = <<>>
    /\ scount = 0
    /\ pcount = 0
    /\ tcount = 0
    /\ gpu_panic = ""

gpuData == <<obj_i, gpu_spheres, gpu_planes, gpu_tris, scount, pcount, tcount>>

\* render_async: the progressive render setup.
gpu_plan ==
    /\ pc = "gpu_plan"
    /\ \E p \in {render_plan(gpu_scene.render, adapter, overflow_checks)} :
          IF p.panic # ""
          THEN /\ pc' = "panic" /\ gpu_panic' = p.panic
               /\ UNCHANGED <<samples_per_dispatch, num_dispatches>>
          ELSE /\ pc' = "gpu_light"
               /\ samples_per_dispatch' = p.samples_per_dispatch
               /\ num_dispatches' = p.num_dispatches
               /\ UNCHANGED gpu_panic
    /\ UNCHANGED <<nanNeg, overflow_checks, adapter, gpu_scene, submitted, divisor, gpuData>>
    /\ UNCHANGED notGpu

\* render_async: scene.lights.get(0).expect(..)
gpu_light ==
    /\ pc = "gpu_light"
    /\ IF gpu_scene.lights = <<>>
       THEN pc' = "panic" /\ gpu_panic' = "Scene needs at least one light"
       ELSE pc' = "get_object_data" /\ UNCHANGED gpu_panic
    /\ UNCHANGED <<nanNeg, overflow_checks, adapter, gpu_scene, samples_per_dispatch,
                   num_dispatches, submitted, divisor, gpuData>>
    /\ UNCHANGED notGpu

\* get_object_data: the buffers at their caps, the counts at 0.
get_object_data_enter ==
    /\ pc = "get_object_data"
    /\ pc' = "for_obj"
    /\ gpu_spheres' = vec_of(SphereData_zeroed, MAX_SPHERES)
    /\ gpu_planes' = vec_of(PlaneData_zeroed, MAX_PLANES)
    /\ gpu_tris' = vec_of(TriangleData_zeroed, MAX_TRIS)
    /\ scount' = 0 /\ pcount' = 0 /\ tcount' = 0
    /\ obj_i' = 0
    /\ UNCHANGED <<nanNeg, overflow_checks, adapter, gpu_scene, samples_per_dispatch,
                   num_dispatches, submitted, divisor, gpu_panic>>
    /\ UNCHANGED notGpu

\* get_object_data: one pass of for obj in &scene.objects.
get_object_data_step ==
    /\ pc = "for_obj" /\ obj_i < Len(gpu_scene.objects)
    /\ \E b \in {object_data(gpu_scene.objects[obj_i + 1],
                             Buffers(gpu_spheres, gpu_planes, gpu_tris, scount, pcount, tcount))} :
          /\ gpu_spheres' = b.spheres /\ gpu_planes' = b.planes /\ gpu_tris' = b.tris
          /\ scount' = b.scount /\ pcount' = b.pcount /\ tcount' = b.tcount
    /\ obj_i' = obj_i + 1
    /\ UNCHANGED <<nanNeg, pc, overflow_checks, adapter, gpu_scene, samples_per_dispatch,
                   num_dispatches, submitted, divisor, gpu_panic>>
    /\ UNCHANGED notGpu

\* get_object_data: after the loop, the buffers and the counts returned.
get_object_data_return ==
    /\ pc = "for_obj" /\ obj_i >= Len(gpu_scene.objects)
    /\ pc' = "dispatch"
    /\ gpu_spheres' = returned(gpu_spheres, scount, SphereData_zeroed)
    /\ gpu_planes' = returned(gpu_planes, pcount, PlaneData_zeroed)
    /\ gpu_tris' = returned(gpu_tris, tcount, TriangleData_zeroed)
    /\ UNCHANGED <<nanNeg, overflow_checks, adapter, gpu_scene, samples_per_dispatch,
                   num_dispatches, submitted, divisor, obj_i, scount, pcount, tcount, gpu_panic>>
    /\ UNCHANGED notGpu

\* render_async: one pass of for i in 0..num_dispatches, which submits
\* RenderParams { samples_per_pixel: samples_per_dispatch, .. } and adds the
\* colours it reads back.
gpu_dispatch ==
    /\ pc = "dispatch" /\ Len(submitted) < num_dispatches
    /\ submitted' = Append(submitted, samples_per_dispatch)
    /\ UNCHANGED <<nanNeg, pc, overflow_checks, adapter, gpu_scene, samples_per_dispatch,
                   num_dispatches, divisor, gpuData, gpu_panic>>
    /\ UNCHANGED notGpu

\* render_async: the final image divides the accumulated colour by
\* total_samples as f32.
gpu_image ==
    /\ pc = "dispatch" /\ Len(submitted) >= num_dispatches
    /\ pc' = "image"
    /\ divisor' = gpu_scene.render.samples
    /\ UNCHANGED <<nanNeg, overflow_checks, adapter, gpu_scene, samples_per_dispatch,
                   num_dispatches, submitted, gpuData, gpu_panic>>
    /\ UNCHANGED notGpu

NextGpu ==
    \/ gpu_plan
    \/ gpu_light
    \/ get_object_data_enter
    \/ get_object_data_step
    \/ get_object_data_return
    \/ gpu_dispatch
    \/ gpu_image

InitSpecGpu ==
    nanNeg \in BOOLEAN /\ pc = "gpu_plan" /\ IdleGeom /\ IdleTrace /\ IdleRender /\ IdleLoad /\ InitGpu

SpecGpu == InitSpecGpu /\ [][NextGpu]_vars

(***************************************************************************)
(* Properties of the intersection queries                                  *)
(***************************************************************************)
\* The hits the primitives of the list report for the ray.
Reported(gen, objs, ro, rd) ==
    { h \in { IF gen = "renderer" THEN Object_hit(objs[i], ro, rd)
                                  ELSE main_intersect(objs[i], ro, rd) : i \in 1..Len(objs) } :
        h.some }

\* C4: the closest-hit query of either generation never panics and returns
\* a hit exactly when some primitive reports one; the hit it returns is one
\* of the reported hits and no reported hit has a smaller t in the total
\* order of f32 (NaN included).
C4_ClosestIsTotalMinimum ==
    qout.op = "closest" =>
        The({ ( /\ ~qout.panic
                /\ qout.res.some <=> hits # {}
                /\ qout.res.some =>
                      /\ qout.res \in hits
                      /\ \A h \in hits : total_cmp(qout.res.t, h.t) # "Greater" )
            : hits \in {Reported(qgen, qobjs, qro, qrd)} })

\* C4 witness: a closest-hit query over two primitives that both report a
\* hit, one of them with a NaN t, has returned a hit.
C4_NaNHitCompared ==
    /\ qout.op = "closest"
    /\ qgen = "renderer"
    /\ Len(qobjs) = 2
    /\ \A i \in 1..2 : Object_hit(qobjs[i], qro, qrd).some
    /\ \E i \in 1..2 : IsNaN(Object_hit(qobjs[i], qro, qrd).t)
    /\ qout.res.some
    /\ ~qout.panic

\* The ray lies in the plane of the triangle or is parallel to it.
TriangleParallel(tri, rd) == dot(Triangle_e1xe2(tri), rd) = 0

\* The triangle has no area.
TriangleDegenerate(tri) == Triangle_e1xe2(tri) = ZeroVec

\* The primitive and the result the last single-primitive query was about.
QueriedObject == qobjs[qout.i]

\* No hit for a ray parallel to a plane, for a ray parallel to a triangle
\* and for a degenerate triangle, in both generations.
ParallelOrDegenerateIsNone ==
    /\ qout.op = "Plane" /\ dot(QueriedObject.normal, qrd) = 0 => ~qout.res.some
    /\ qout.op = "Triangle" =>
          The({ TriangleParallel(tri, qrd) \/ TriangleDegenerate(tri) => ~qout.res.some
              : tri \in {QueriedObject.triangles[qout.j]} })

\* C10, for a negative discriminant: no intersection routine panics, and a ray parallel to a
\* plane or triangle, a degenerate triangle, and a sphere with a negative
\* discriminant each produce None.
C10_NegativeDiscriminantIsNone ==
    /\ ~qout.panic
    /\ ParallelOrDegenerateIsNone
    /\ qout.op = "Sphere" /\ FLt(Sphere_disc(QueriedObject, qro, qrd), 0) => ~qout.res.some

\* C10 witness: a sphere query whose discriminant is negative has
\* answered None.
C10_SphereMissed ==
    /\ qout.op = "Sphere"
    /\ qgen = "renderer"
    /\ FLt(Sphere_disc(QueriedObject, qro, qrd), 0)
    /\ ~qout.res.some

\* C10, for every non-positive discriminant: as above, with None also for a
\* discriminant of zero.
C10_NonPositiveDiscriminantIsNone ==
    /\ ~qout.panic
    /\ ParallelOrDegenerateIsNone
    /\ qout.op = "Sphere" /\ FLe(Sphere_disc(QueriedObject, qro, qrd), 0) => ~qout.res.some

(***************************************************************************)
(* Properties of Sphere::hit and Plane::hit                                *)
(***************************************************************************)
\* A ray with finite components and a direction that is not zero.
ProperRay(ro, rd) ==
    /\ \A k \in 1..3 : IsFinite(ro[k]) /\ IsFinite(rd[k])
    /\ rd # ZeroVec

\* The roots of |o + t d - c|^2 = r^2 for a discriminant >= 0, smaller first.
SphereRoots(self, ro, rd) ==
    The({ << FDiv(FSub(FNeg(b), FSqrt(disc)), FMul(2 * ONE, a)),
             FDiv(FAdd(FNeg(b), FSqrt(disc)), FMul(2 * ONE, a)) >>
        : a \in {dot(rd, rd)},
          b \in {FMul(2 * ONE, dot(sub(ro, self.center), rd))},
          disc \in {Sphere_disc(self, ro, rd)} })

\* The closest strictly positive root, if there is one.
ClosestPositiveRoot(self, ro, rd) ==
    IF FLt(Sphere_disc(self, ro, rd), 0) THEN NoneF
    ELSE The({ IF FGt(r[1], 0) THEN SomeF(r[1])
               ELSE IF FGt(r[2], 0) THEN SomeF(r[2])
               ELSE NoneF
             : r \in {SphereRoots(self, ro, rd)} })

\* C12: Sphere::hit returns the closest strictly positive root of the
\* quadratic whenever a positive root exists, also for an origin inside the
\* sphere (smaller root negative, larger root positive), and None only when
\* no positive root exists.
C12_ClosestPositiveRootReturned ==
    (qout.op = "Sphere" /\ qgen = "renderer" /\ ProperRay(qro, qrd)) =>
        The({ /\ qout.res.some = root.some
              /\ root.some => qout.res.t = root.t
            : root \in {ClosestPositiveRoot(QueriedObject, qro, qrd)} })

\* Where the ray meets the supporting plane of the rectangle: [meets: at a
\* finite t > 1e-4 (one step), d: the displacement from the plane's centre].
PlaneMeet(self, ro, rd) ==
    The({ The({ [meets |-> ~FLt(FAbs(denom), 1) /\ IsFinite(t) /\ FGt(t, 1),
                 d |-> sub(add(ro, scale(rd, t)), self.point)]
        : t \in {FDiv(dot(sub(self.point, ro), self.normal), denom)} })
        : denom \in {dot(self.normal, rd)} })

\* |d.u| <= |u|^2 and |d.v| <= |v|^2
WithinRectangle(self, d) ==
    /\ FLe(FAbs(dot(d, self.u)), dot(self.u, self.u))
    /\ FLe(FAbs(dot(d, self.v)), dot(self.v, self.v))

\* C13: for a ray that meets the supporting plane at t > 1e-4 with
\* displacement d from the plane's centre, Plane::hit reports a hit if and
\* only if |d.u| <= |u|^2 and |d.v| <= |v|^2, the boundary included.
C13_BoundaryInclusive ==
    (qout.op = "Plane" /\ qgen = "renderer") =>
        The({ m.meets => (qout.res.some <=> WithinRectangle(QueriedObject, m.d))
            : m \in {PlaneMeet(QueriedObject, qro, qrd)} })

\* C13 witness: a ray that meets the plane exactly on the boundary of the
\* rectangle, |d.u| = |u|^2, has been reported as a hit.
C13_BoundaryHitAccepted ==
    /\ qout.op = "Plane" /\ qgen = "renderer"
    /\ The({ /\ m.meets
             /\ FAbs(dot(m.d, QueriedObject.u)) = dot(QueriedObject.u, QueriedObject.u)
           : m \in {PlaneMeet(QueriedObject, qro, qrd)} })
    /\ qout.res.some


\* C23: every hit returned by Plane::hit reports a normal that faces the
\* incoming ray, reported_normal . direction < 0, whichever side of the
\* parallelogram the ray comes from.
C23_NormalFacesRay ==
    (qout.op = "Plane" /\ qgen = "renderer" /\ qout.res.some) =>
        FLt(dot(qout.res.n, qrd), 0)

\* C23 witness: a ray that comes from behind the plane (normal . direction
\* > 0) has hit it, and the reported normal is the stored normal negated.
C23_HitFromBehind ==
    /\ qout.op = "Plane" /\ qgen = "renderer"
    /\ FGt(dot(QueriedObject.normal, qrd), 0)
    /\ qout.res.some
    /\ qout.res.n = neg(QueriedObject.normal)

(***************************************************************************)
(* Properties of Mesh::hit                                                 *)
(***************************************************************************)
\* The determinant, the barycentric coordinates and the distance of the
\* Moller-Trumbore test of the triangle against the ray.
MollerTrumbore(tri, ro, rd) ==
    The({ The({ The({ The({ [det |-> det,
                             u |-> FMul(dot(tvec, p), FDiv(ONE, det)),
                             v |-> FMul(dot(rd, q), FDiv(ONE, det)),
                             t |-> FMul(dot(e2, q), FDiv(ONE, det))]
        : q \in {cross(tvec, e1)} })
        : det \in {dot(e1, p)}, tvec \in {sub(ro, tri.v0)} })
        : p \in {cross(rd, e2)} })
        : e1 \in {sub(tri.v1, tri.v0)}, e2 \in {sub(tri.v2, tri.v0)} })

\* The triangle is accepted by the test (|det| >= 1e-8, which is one step
\* here; 0 <= u <= 1; v >= 0; u + v <= 1) with t above the epsilon 1e-4.
Qualifies(tri, ro, rd) ==
    The({ /\ FGe(FAbs(m.det), 1)
          /\ FGe(m.u, 0) /\ FLe(m.u, ONE)
          /\ FGe(m.v, 0) /\ FLe(FAdd(m.u, m.v), ONE)
          /\ FGt(m.t, 1)
        : m \in {MollerTrumbore(tri, ro, rd)} })

\* C24: Mesh::hit returns the smallest t among the triangles accepted by the
\* Moller-Trumbore test whose t is above the epsilon, together with the
\* precomputed normal of that same triangle and the mesh material; it
\* returns None when no triangle qualifies.
C24_NearestQualifyingTriangle ==
    (qout.op = "Mesh" /\ qgen = "renderer") =>
        The({ The({ /\ qout.res.some <=> good # {}
                    /\ qout.res.some =>
                          /\ qout.res.mat = QueriedObject.material
                          /\ \E j \in good :
                                /\ qout.res.t = MollerTrumbore(tris[j], qro, qrd).t
                                /\ qout.res.n = tris[j].normal
                                /\ \A k \in good :
                                      FLe(qout.res.t, MollerTrumbore(tris[k], qro, qrd).t)
                  : good \in {{ j \in 1..Len(tris) : Qualifies(tris[j], qro, qrd) }} })
            : tris \in {QueriedObject.triangles} })

\* C24 witness: of three triangles on the ray, the first met lies within
\* the epsilon and the nearest of the other two comes later in the mesh;
\* the hit is that one, with its own normal.
C24_LaterTriangleNearest ==
    /\ qout.op = "Mesh" /\ qgen = "renderer"
    /\ Len(QueriedObject.triangles) = 3
    /\ The({ /\ m[1].t = 1 /\ ~Qualifies(QueriedObject.triangles[1], qro, qrd)
              /\ Qualifies(QueriedObject.triangles[2], qro, qrd)
              /\ Qualifies(QueriedObject.triangles[3], qro, qrd)
              /\ FLt(m[3].t, m[2].t)
              /\ qout.res.some
              /\ qout.res.t = m[3].t
              /\ qout.res.n = QueriedObject.triangles[3].normal
              /\ qout.res.n # QueriedObject.triangles[2].normal
            : m \in {[j \in 1..3 |-> MollerTrumbore(QueriedObject.triangles[j], qro, qrd)]} })
(***************************************************************************)
(* FairSpec: the worker keeps running while it has a step to take          *)
(***************************************************************************)
\* One sample per pixel through a pinhole: every scene, pixel and stream.
InitFair == Init /\ spp = 1 /\ camera.aperture = 0

FairSpec == InitFair /\ [][Next]_vars /\ WF_vars(Next)

(***************************************************************************)
(* Properties of trace and of the pixel evaluation                         *)
(***************************************************************************)
\* The invocation f was made at or beyond a limit of its generation.
LimitReached(f) ==
    IF tgen = "renderer" THEN f.depth >= MAX_DEPTH
    ELSE f.depth >= main_MAX_DEPTH \/ f.glass_bounces >= MAX_GLASS_BOUNCES

\* C1: an invocation of trace with depth >= MAX_DEPTH, or with a glass-bounce
\* count >= MAX_GLASS_BOUNCES, returns zero radiance, sends no query into the
\* scene and makes no recursive call.
C1_LimitReturnsZero ==
    [][ (pc = "trace" /\ stack # <<>> /\ Top.st = "call" /\ LimitReached(Top.f))
          => /\ stack' = Pop
             /\ retv' = [some |-> TRUE, v |-> ZeroVec]
             /\ ev'.queries = 0
             /\ ev'.ret ]_vars

\* C1 witness: an invocation made at depth MAX_DEPTH has run and returned.
C1_DepthLimitHit ==
    tgen = "renderer" /\ ev.op = "enter" /\ ev.f.depth >= MAX_DEPTH /\ retv.some

\* The invocations on the stack have depths 0, 1, 2, ... up to the limit.
PathDepthIncreases ==
    \A i \in 1..Len(stack) :
        /\ stack[i].f.depth = i - 1
        /\ stack[i].f.depth <= (IF tgen = "renderer" THEN MAX_DEPTH ELSE main_MAX_DEPTH)

\* C2: every call of trace made by the pixel loop at depth 0 terminates: each
\* recursive call passes depth + 1, so the depth strictly increases along the
\* path and never exceeds MAX_DEPTH.
C2_TraceTerminates == []PathDepthIncreases /\ ((pc = "trace") ~> (pc = "pixel"))

\* C2 witness: a path of the modular generation has reached the deepest
\* invocation, at depth MAX_DEPTH.
C2_DeepestInvocation ==
    tgen = "renderer" /\ Len(stack) = MAX_DEPTH + 1 /\ Top.f.depth = MAX_DEPTH

\* C3: when trace finds no surface hit and carries no medium, it returns the
\* sky gradient of the y component of the ray direction.
C3_MissReturnsSky ==
    (ev.op = "enter" /\ ev.branch = "miss" /\ ~ev.f.media.some)
        => ev.value = main_sky(ev.f.rd)

\* C5: no step of autofocus, pixel_color, trace or direct lighting modifies
\* the object list, the materials or the light list.
C5_SceneNeverModified ==
    [][scene_objs' = scene_objs /\ scene_lights' = scene_lights]_vars

\* C5 witness: in a repeated evaluation trace has shaded a hit whose stored
\* material is outside the clamp range, using the clamped copy.
C5_ClampedCopyShaded ==
    /\ tgen = "renderer" /\ evalNo = 2 /\ ev.op = "enter"
    /\ \E i \in 1..Len(scene_objs) :
          /\ ev.mat = clamped(scene_objs[i].material)
          /\ ev.mat # scene_objs[i].material

\* C6: every draw of a pixel evaluation comes from the handle passed to
\* pixel_color, none from the thread-local generator; so the evaluation
\* repeated with the same inputs and the same stream returns the same RGB.
C6_SameStreamSameRGB ==
    tgen = "renderer" =>
        /\ rngPos.amb = 0
        /\ (pc = "done" /\ evalNo = 2) => rgb = rgb1

\* C8: the primary rays traced for a pixel are as many as the configured
\* samples per pixel, the number the accumulated radiance is divided by.
C8_RaysEqualSamples == pc = "done" => rays = spp


(***************************************************************************)
(* Properties of the row-parallel render                                   *)
(***************************************************************************)
\* The entries the task of row y computes, from pixel x on, when its
\* generator is at R: what the row holds whatever the other tasks do.
RECURSIVE row_alone(_, _, _)
row_alone(x, y, R) ==
    IF x >= camera.w THEN <<>>
    ELSE The({ <<e.v>> \o row_alone(x + 1, y, e.r)
             : e \in {main_row_entry(x, y, camera, scene_objs, scene_lights[1], R)} })

\* C7: in the row-parallel render no pixel is put more than once, and in
\* the saved image every pixel (x, y) has been put exactly once, with the
\* value the task of row y computed for (x, y) from its own generator;
\* the position of the progress bar plays no part in it.
C7_EachPixelWrittenOnce ==
    /\ \A p \in DOMAIN img : img[p].puts <= 1
    /\ pc = "saved" =>
          /\ DOMAIN img = (0..(camera.w - 1)) \X (0..(camera.h - 1))
          /\ \A p \in DOMAIN img :
                /\ img[p].puts = 1
                /\ img[p].rgb = row_alone(0, p[2], task[p[2]].R0)[p[1] + 1].rgb

\* C7 witness: an image of several rows and columns is saved whose rows
\* were started in another order than that of y.
C7_RowsOutOfOrderSaved ==
    /\ pc = "saved"
    /\ camera.w >= 2 /\ camera.h >= 2
    /\ \E y \in DOMAIN task : task[y].pos # y + 1
    /\ \E p, q \in DOMAIN img : img[p].rgb # img[q].rgb

(***************************************************************************)
(* Properties of the loaders                                               *)
(***************************************************************************)
\* The material an object pushed by a loader carries, for a mesh the
\* material of each of its triangles.
CarriesOnly(obj, material) ==
    IF obj.kind = "Mesh"
    THEN \A i \in DOMAIN obj.triangles : obj.triangles[i].material = material
    ELSE obj.material = material

\* C9: no load ends in a panic for a missing material, and every object
\* pushed for a description that names a material missing from the table
\* carries the default material.
C9_MissingMaterialSubstituted ==
    /\ panic_msg # "No material"
    /\ \A i \in 1..Len(loaded) :
          file.objects[i].mat \notin DOMAIN file.materials
              => CarriesOnly(loaded[i], default_mat)
(***************************************************************************)
(* Properties of the autofocus                                             *)
(***************************************************************************)
\* The hit distances t of the rays of the 5 x 5 grid that hit, in order.
GridHitDistances ==
    IF tgen = "renderer" THEN autofocus_dists(camera, scene_objs)
    ELSE The({ Seq_([n \in 1..Len(hit) |-> hit[n].q.opt.t])
             : hit \in {SelectSeq(main_autofocus_hits(camera, scene_objs),
                                  LAMBDA h : h.q.opt.some)} })

\* The arithmetic mean of ts, or fallback when ts is empty.
MeanOr(ts, fallback) ==
    IF ts = <<>> THEN fallback ELSE FDiv(sum(ts, 1, 0), AsF32(Len(ts)))

\* C11: the focus distance the autofocus returns is the arithmetic mean of
\* the hit distances of exactly those rays of the 5 x 5 grid that hit, and
\* the fixed fallback distance when none of the 25 rays hits.
C11_FocusIsMeanHitDistance ==
    pc \in {"idle", "pixel", "trace", "done"} =>
        camera.focus = MeanOr(GridHitDistances, IF tgen = "renderer" THEN 10 * ONE ELSE 5 * ONE)

(***************************************************************************)
(* Properties of the carried medium                                        *)
(***************************************************************************)
\* The invocation f of the modular trace has just run from its first line
\* and has handled a surface hit by a recursive call.
SurfaceCrossed ==
    tgen = "renderer" /\ ev.op = "enter" /\ ev.branch \in {"glass", "opaque"} /\ ~ev.ret

\* The normal of the closest hit of the ray of the last invocation.
CrossedNormal == intersect_closest(ev.f.ro, ev.f.rd, scene_objs).n

\* C14: after a surface crossing the next ray carries the hit material when
\* the ray enters a volumetric material (volume_density > 0 and view.normal
\* > 0) and carries no medium in every other case.
C14_MediumEnteredOrNone ==
    SurfaceCrossed =>
        ev.call.media = (IF FGt(ev.mat.volume_density, 0) /\ FGt(dot(neg(ev.f.rd), CrossedNormal), 0)
                         THEN SomeM(ev.mat) ELSE NoneM)

\* An invocation of the modular trace that carries a medium is about to run
\* from its first line, below the depth limit.
EntersInMedium ==
    /\ pc = "trace" /\ tgen = "renderer" /\ stack # <<>> /\ Top.st = "call"
    /\ Top.f.media.some /\ Top.f.depth < MAX_DEPTH

\* The distance to the closest surface on the ray of the top invocation.
SurfaceDistance ==
    The({ IF h.some THEN h.t ELSE F32_INFINITY
        : h \in {intersect_closest(Top.f.ro, Top.f.rd, scene_objs)} })

\* C15: when a medium is carried and the sampled free-flight distance is
\* smaller than the distance to the closest surface, trace handles a
\* scattering event: it samples the direct lighting at the scatter point and
\* makes exactly one recursive call from that point with depth + 1 and the
\* same carried medium, and does not shade the surface; when the sampled
\* distance is not smaller, it handles the surface hit or the miss.
C15_MediumEventFirst ==
    [][ /\ EntersInMedium =>
            The({ IF FLt(m.t_media, SurfaceDistance)
                  THEN The({ /\ ev'.branch = "scatter"
                             /\ ~ev'.ret
                             /\ Len(stack') = Len(stack) + 1
                             /\ stack'[Len(stack')].f.ro = hit_point
                             /\ stack'[Len(stack')].f.depth = Top.f.depth + 1
                             /\ stack'[Len(stack')].f.media = Top.f.media
                             /\ ev'.queries = 1 + SHADOW_SAMPLES * Len(scene_lights)
                             /\ stack'[Len(stack)].saved.direct =
                                   direct_light_sample(hit_point, <<0, ONE, 0>>, neg(Top.f.rd),
                                                       Top.f.media.mat, scene_objs, scene_lights, m.r).v
                           : hit_point \in {add(Top.f.ro, scale(Top.f.rd, m.t_media))} })
                  ELSE ev'.branch \in {"miss", "glass", "opaque"}
                : m \in {march(Top.f.media, SurfaceDistance, rngPos)} })
        /\ (pc = "trace" /\ tgen = "renderer" /\ stack # <<>> /\ Top.st = "wait"
               /\ Top.branch = "scatter")
              => stack' = Pop ]_vars

\* C15 witness: an invocation that carries a medium has handled a scattering
\* event in front of a surface and made its recursive call.
C15_ScatteredBeforeSurface ==
    /\ tgen = "renderer" /\ ev.op = "enter" /\ ev.branch = "scatter"
    /\ ev.f.media.some
    /\ intersect_closest(ev.f.ro, ev.f.rd, scene_objs).some
    /\ ~ev.ret /\ ev.call.depth = ev.f.depth + 1

(***************************************************************************)
(* Properties of the dielectric surface                                    *)
(***************************************************************************)
\* The last step of trace was taken at a dielectric surface: from the first
\* line of the invocation (enter) or from the return of a call (resume).
AtDielectric == ev.branch \in {"glass", "glass_refl", "glass_refr"}

\* C16: at a dielectric surface trace follows exactly one of reflection and
\* refraction: it makes one recursive call, with depth + 1, the glass-bounce
\* count incremented by one and the updated carried medium, and makes no
\* second call when that call returns.
C16_OneBranchFollowed ==
    /\ (ev.op = "enter" /\ AtDielectric) =>
          /\ ~ev.ret
          /\ ev.call.depth = ev.f.depth + 1
          /\ ev.call.glass_bounces = ev.f.glass_bounces + 1
          /\ ev.call.media = ev.next_media
    /\ (ev.op = "resume" /\ AtDielectric) => ev.ret

\* The closest hit on the ray of the invocation f.
HitOf(f) ==
    IF tgen = "renderer" THEN intersect_closest(f.ro, f.rd, scene_objs)
    ELSE main_intersect_closest(f.ro, f.rd, scene_objs).opt

\* cos of the angle between the view direction and the normal of the hit.
Cosi(f) == FClamp(dot(neg(f.rd), HitOf(f).n), 0 - ONE, ONE)

\* What refract yields for the hit of f: the refracted direction, if any.
RefractionAt(f) ==
    IF tgen = "renderer"
    THEN (IF FGt(Cosi(f), 0)
          THEN refract(f.rd, HitOf(f).n, FDiv(ONE, HitOf(f).mat.ior))
          ELSE refract(f.rd, neg(HitOf(f).n), FDiv(HitOf(f).mat.ior, ONE)))
    ELSE main_refract(f.rd, HitOf(f).n, FDiv(ONE, HitOf(f).mat.ior))

\* The reflectance the reflect / refract draw is compared with.
ReflectanceAt(f) ==
    The({ FAdd(r0, FMul(FSub(ONE, r0), FPowi(FSub(ONE, FAbs(Cosi(f))), 5)))
        : r0 \in {FPowi(FDiv(FSub(ONE, HitOf(f).mat.ior), FAdd(ONE, HitOf(f).mat.ior)), 2)} })

\* The mirror-reflection direction at the hit of f.
MirrorAt(f) ==
    IF tgen = "renderer" THEN reflect(f.rd, HitOf(f).n)
    ELSE main_normalize(main_reflect(f.rd, HitOf(f).n))

\* C17: at a dielectric hit where refract yields no direction (total
\* internal reflection) the path continues in the mirror-reflection
\* direction whatever the reflect / refract draw is, and the invocation
\* returns the radiance of the reflected path: the refraction branch neither
\* contributes zero nor ends the path.
C17_TotalReflectionContinues ==
    [][ /\ (ev'.op = "enter" /\ ev'.branch \in {"glass", "glass_refl"} /\ ~RefractionAt(ev'.f).some)
              => /\ ~ev'.ret
                 /\ Len(stack') = Len(stack) + 1
                 /\ stack'[Len(stack')].f.rd = MirrorAt(ev'.f)
        /\ (pc = "trace" /\ stack # <<>> /\ Top.st = "wait" /\ retv.some
               /\ Top.branch \in {"glass", "glass_refl"} /\ ~RefractionAt(Top.f).some)
              => /\ stack' = Pop
                 /\ retv'.some
                 /\ retv'.v = (IF tgen = "renderer" THEN mul(retv.v, Top.saved.absorption)
                               ELSE retv.v) ]_vars

\* C17 witness: in the modular trace a draw of 0.5, above the reflectance,
\* chose refraction at a hit where refract yields no direction, and the call
\* along the mirror direction has been made.
C17_RefractionImpossible ==
    /\ tgen = "renderer" /\ ev.op = "enter" /\ ev.branch = "glass"
    /\ ~RefractionAt(ev.f).some
    /\ rngStream = <<5000>> /\ FLt(ReflectanceAt(ev.f), 5000)
    /\ ~ev.ret /\ ev.call.rd = MirrorAt(ev.f)

\* C18: a surface hit is handled by the dielectric branch if and only if the
\* hit material has ior > 1 and metallic < 0.1; every other hit is handled
\* by the opaque branch.
C18_DielectricIffIorAboveOne ==
    (ev.op = "enter" /\ ev.branch \in {"glass", "glass_refl", "opaque", "diffuse"}) =>
        (ev.branch \in {"glass", "glass_refl"}
            <=> (FGt(ev.mat.ior, ONE) /\ FLt(ev.mat.metallic, 1000)))

(***************************************************************************)
(* Properties of the opaque surface                                        *)
(***************************************************************************)
\* The top invocation of the modular trace up to the Russian roulette of
\* its opaque hit: [direct: the direct lighting and the generator after it,
\* absorption, p: the largest colour channel of the hit material].
BeforeRoulette ==
    The({ The({ The({ [direct |-> direct_light_sample(add(Top.f.ro, scale(Top.f.rd, h.t)), h.n,
                                                     neg(Top.f.rd), mat, scene_objs, scene_lights, m.r),
                       absorption |-> m.absorption,
                       p |-> FMax(FMax(mat.color[1], mat.color[2]), mat.color[3])]
        : mat \in {clamped(h.mat)} })
        : m \in {march(Top.f.media, h.t, rngPos)} })
        : h \in {intersect_closest(Top.f.ro, Top.f.rd, scene_objs)} })

\* The draw that follows the draws of the direct lighting.  A sampled
\* bounce takes three more: one to choose diffuse or specular, two for the
\* direction.
RouletteDraw(b) == rngStream[(b.direct.r.rng % Len(rngStream)) + 1]

\* C19: at an opaque hit below the Russian-roulette depth the indirect
\* bounce is always attempted, without a roulette draw, and is not rescaled;
\* at or above that depth it is attempted when a draw is below p = the
\* largest colour channel, its contribution is divided by p when the path
\* continues and is zero when the roulette ends the path; the direct
\* lighting is added in every case.
C19_RouletteFromThreshold ==
    [][ /\ (tgen = "renderer" /\ pc = "trace" /\ stack # <<>> /\ Top.st = "call"
               /\ ev'.op = "enter" /\ ev'.branch = "opaque") =>
              The({ /\ IF Top.f.depth < RUSSIAN_ROULETTE_DEPTH
                       THEN rngPos'.rng = b.direct.r.rng + 3
                       ELSE IF FLt(RouletteDraw(b), b.p)
                       THEN rngPos'.rng = b.direct.r.rng + 1 + 3
                       ELSE rngPos'.rng = b.direct.r.rng + 1 /\ ev'.ret
                    /\ ev'.ret => ev'.value = mul(add(b.direct.v, ZeroVec), b.absorption)
                    /\ ~ev'.ret => /\ stack'[Len(stack)].saved.direct = b.direct.v
                                   /\ stack'[Len(stack)].saved.absorption = b.absorption
                                   /\ stack'[Len(stack)].saved.p = b.p
                  : b \in {BeforeRoulette} })
        /\ (tgen = "renderer" /\ pc = "trace" /\ stack # <<>> /\ Top.st = "wait" /\ retv.some
               /\ Top.branch = "opaque") =>
              The({ /\ stack' = Pop
                    /\ retv'.v = mul(add(Top.saved.direct,
                                         IF Top.f.depth < RUSSIAN_ROULETTE_DEPTH THEN indirect
                                         ELSE scale(indirect, FDiv(ONE, Top.saved.p))),
                                     Top.saved.absorption)
                  : indirect \in {scale(mul(retv.v, Top.saved.brdf), Top.saved.ndot)} }) ]_vars

\* C19 witness: at depth 2 a roulette draw of 0.5 against p = 0.3 has ended
\* a path at an opaque hit, which returned its direct lighting alone.
C19_RouletteEndedPath ==
    /\ tgen = "renderer" /\ ev.op = "enter" /\ ev.branch = "opaque"
    /\ ev.f.depth >= RUSSIAN_ROULETTE_DEPTH
    /\ ev.mat = MatDark
    /\ rngStream = <<5000>>
    /\ ev.rng = 2 * SHADOW_SAMPLES * Len(scene_lights) + 1
    /\ ev.ret

\* The bounce sampled at the last opaque hit is the cosine-weighted
\* hemisphere sample (main.rs has no other).
DiffuseSampled ==
    IF tgen = "renderer"
    THEN stack[Len(stack) - 1].saved.brdf = scale(ev.mat.color, FDiv(ONE, PI))
    ELSE ev.branch = "diffuse"

\* The draw that chose between diffuse and specular: the first of the three
\* draws of the bounce (one to choose, two for the direction), which are
\* the last draws of the step.
ChoiceDraw == rngStream[((rngPos.rng - 3) % Len(rngStream)) + 1]

\* The last step handled an opaque hit.
AtOpaque == ev.branch \in {"opaque", "diffuse"}

\* C20: at an opaque hit trace returns the direct lighting plus at most one
\* indirect bounce: it makes at most one recursive call, and the bounce is
\* either the diffuse or the specular sample, diffuse with probability
\* 1 - metallic (when a draw is below 1 - metallic) and specular otherwise.
C20_OneBounceDiffuseOrSpecular ==
    /\ (ev.op = "resume" /\ AtOpaque) => ev.ret
    /\ (ev.op = "enter" /\ AtOpaque /\ ~ev.ret) =>
          /\ Len(stack) >= 2
          /\ DiffuseSampled => FGt(FSub(ONE, ev.mat.metallic), 0)
          /\ tgen = "renderer" =>
                (DiffuseSampled <=> FLt(ChoiceDraw, FSub(ONE, ev.mat.metallic)))


(***************************************************************************)
(* Properties of the direct lighting                                       *)
(***************************************************************************)
\* What the invocation f of the modular trace, run with the generator at R,
\* passes to direct_light_sample: at the scatter point of a medium event, or
\* at the closest surface hit.  r is the generator after the free path was
\* sampled, absorption the attenuation along the free path.
ShadedBy(f, R) ==
    The({ The({ The({ IF media_event_first(m.t_media, t_surface)
        THEN [hit |-> add(f.ro, scale(f.rd, m.t_media)), n |-> <<0, ONE, 0>>,
              v |-> neg(f.rd), mat |-> f.media.mat, r |-> m.r, absorption |-> m.absorption]
        ELSE [hit |-> add(f.ro, scale(f.rd, h.t)), n |-> h.n,
              v |-> neg(f.rd), mat |-> clamped(h.mat), r |-> m.r, absorption |-> m.absorption]
        : m \in {march(f.media, t_surface, R)} })
        : t_surface \in {IF h.some THEN h.t ELSE F32_INFINITY} })
        : h \in {intersect_closest(f.ro, f.rd, scene_objs)} })

\* For the invocation that is about to run.
Shaded == ShadedBy(Top.f, rngPos)

\* Pass k (from 0) of the shadow-sample loop of light i at the point s: each
\* pass takes two draws.
ShadowSample(s, i, k) ==
    shadow_sample(scene_lights[i], s.hit, s.n, s.v, s.mat, scene_objs,
                  [s.r EXCEPT !.rng = @ + 2 * ((i - 1) * SHADOW_SAMPLES + k)])

\* Some primitive is hit on the ray closer than the point lp, with the
\* margin of 0.999 on the squared distance.
HitCloserThan(ro, l, from, lp) ==
    \E j \in 1..Len(scene_objs) :
        The({ h.some /\ FLt(FMul(h.t, h.t), FMul(dot(sub(lp, from), sub(lp, from)), 9990))
            : h \in {Object_hit(scene_objs[j], ro, l)} })

\* The next step of the modular trace samples the direct lighting.
SamplesDirectLight ==
    /\ tgen = "renderer" /\ pc = "trace" /\ stack # <<>> /\ Top.st = "call"
    /\ ev'.op = "enter" /\ ev'.branch \in {"opaque", "scatter"}

\* C21: in direct lighting every shadow ray starts at the shading point
\* offset by normal * epsilon, a light sample is marked occluded exactly when
\* some primitive is hit on that ray closer than the light sample (with the
\* safety margin), and an occluded sample contributes zero.
C21_ShadowRayFromNormalOffset ==
    [][ SamplesDirectLight =>
          \A i \in 1..Len(scene_lights) : \A k \in 0..(SHADOW_SAMPLES - 1) :
              The({ The({ /\ x.shadow_ro = add(s.hit, scale(s.n, 1))
                          /\ x.blocked <=> HitCloserThan(x.shadow_ro, x.l, s.hit, x.lp)
                          /\ x.blocked => x.v = ZeroVec
                        : x \in {ShadowSample(s, i, k)} })
                  : s \in {Shaded} }) ]_vars

\* light_contrib of light i after k passes of the shadow-sample loop.
RECURSIVE SumOfSamples(_, _, _)
SumOfSamples(s, i, k) ==
    IF k = 0 THEN ZeroVec ELSE add(SumOfSamples(s, i, k - 1), ShadowSample(s, i, k - 1).v)

\* The sum over the first i lights of the mean of the SHADOW_SAMPLES terms.
RECURSIVE SumOfMeans(_, _)
SumOfMeans(s, i) ==
    IF i = 0 THEN ZeroVec
    ELSE add(SumOfMeans(s, i - 1),
             scale(SumOfSamples(s, i, SHADOW_SAMPLES), FDiv(ONE, AsF32(SHADOW_SAMPLES))))

\* The sample x of light i at the point s is unoccluded and faces the light,
\* and the light faces it.
Lit(s, i, x) ==
    /\ ~HitCloserThan(x.shadow_ro, x.l, s.hit, x.lp)
    /\ FGt(dot(s.n, x.l), 0)
    /\ FGt(dot(neg(x.l), normalize(cross(scene_lights[i].u, scene_lights[i].v))), 0)

\* C22: direct lighting equals the sum over all lights of the mean over
\* SHADOW_SAMPLES samples per light (the divisor is SHADOW_SAMPLES whatever
\* the number of occluded or back-facing samples); a sample contributes a
\* non-zero term only when it is unoccluded, n.l > 0 and the light-facing
\* cosine is > 0; with no lights the result is zero.
C22_SumOfMeansOverLights ==
    [][ SamplesDirectLight =>
          The({ The({ /\ ~ev'.ret => stack'[Len(stack)].saved.direct = direct
                      /\ ev'.ret => ev'.value = mul(add(direct, ZeroVec), s.absorption)
                      /\ scene_lights = <<>> => direct = ZeroVec
                      /\ \A i \in 1..Len(scene_lights) : \A k \in 0..(SHADOW_SAMPLES - 1) :
                            The({ x.v # ZeroVec => Lit(s, i, x)
                                : x \in {ShadowSample(s, i, k)} })
                    : direct \in {SumOfMeans(s, Len(scene_lights))} })
              : s \in {Shaded} }) ]_vars

\* The point shaded by the last step, which made its recursive call.
LastShaded == ShadedBy(ev.f, [rngPos EXCEPT !.rng = @ - ev.rng])

\* C22 witness: an opaque hit was shaded under two lights; a sample of one
\* light was occluded or faced away while another sample contributed, and
\* the direct lighting kept for the return is not zero.
C22_TwoLightsOneLit ==
    /\ tgen = "renderer" /\ pc = "trace" /\ ev.op = "enter" /\ ev.branch = "opaque" /\ ~ev.ret
    /\ Top.st = "call" /\ Top.f = ev.call
    /\ Len(scene_lights) = 2
    /\ \E i \in 1..2 : \E k \in 0..(SHADOW_SAMPLES - 1) :
          ~Lit(LastShaded, i, ShadowSample(LastShaded, i, k))
    /\ \E i \in 1..2 : \E k \in 0..(SHADOW_SAMPLES - 1) :
          ShadowSample(LastShaded, i, k).v # ZeroVec
    /\ stack[Len(stack) - 1].saved.direct # ZeroVec

(***************************************************************************)
(* Properties of the division by the roulette probability                  *)
(***************************************************************************)
\* The invocation of frame e divides its indirect contribution by p when
\* its recursive call returns.
DividesByP(e) ==
    e.st = "wait" /\ e.branch = "opaque" /\ e.f.depth >= RUSSIAN_ROULETTE_DEPTH

\* C27: the indirect contribution is divided by the roulette probability p
\* only on paths where the roulette draw was below p, so p > 0 at every
\* division; a material whose colour channels are all 0 ends the path at or
\* above the roulette depth.
C27_DivisorPositive ==
    tgen = "renderer" =>
        /\ \A i \in 1..Len(stack) : DividesByP(stack[i]) => FGt(stack[i].saved.p, 0)
        /\ (ev.op = "enter" /\ ev.branch = "opaque" /\ ev.f.depth >= RUSSIAN_ROULETTE_DEPTH
               /\ ev.mat.color = ZeroVec) => ev.ret

\* C27 witness: at depth 3 an opaque hit on the black surface, with a
\* roulette draw of 0, has ended the path.
C27_BlackSurfaceEndsPath ==
    /\ tgen = "renderer" /\ ev.op = "enter" /\ ev.branch = "opaque"
    /\ ev.f.depth >= RUSSIAN_ROULETTE_DEPTH
    /\ ev.mat = MatBlack
    /\ rngStream = <<0>>
    /\ ev.rng = 2 * SHADOW_SAMPLES * Len(scene_lights) + 1
    /\ ev.ret

(***************************************************************************)
(* Properties of the sampled bounce at an opaque hit                       *)
(***************************************************************************)
\* The opaque hit of the invocation f run with the generator at R, up to
\* the sampled bounce: [direct: the direct lighting, absorption, go: the
\* roulette lets the path continue, ndot: next_dir . n of the bounce].
BounceOf(f, R) ==
    The({ The({ The({ The({ [direct |-> direct.v, absorption |-> s.absorption, go |-> go.v,
                             ndot |-> dot(bounce(s.n, s.v, s.mat, go.r).v[1], s.n)]
        : go \in {roulette(f.depth, p, direct.r)} })
        : p \in {FMax(FMax(s.mat.color[1], s.mat.color[2]), s.mat.color[3])} })
        : direct \in {direct_light_sample(s.hit, s.n, s.v, s.mat, scene_objs, scene_lights, s.r)} })
        : s \in {ShadedBy(f, R)} })

\* C28: at an opaque hit, when the sampled bounce direction does not lie in
\* the hemisphere of the surface normal (next_dir . n <= 0), trace makes no
\* recursive call and sends no further query into the scene; the indirect
\* contribution is zero and the result is the direct lighting alone, times
\* the absorption.
C28_BounceBelowSurfaceNotTraced ==
    [][ (tgen = "renderer" /\ pc = "trace" /\ stack # <<>> /\ Top.st = "call"
           /\ ev'.op = "enter" /\ ev'.branch = "opaque") =>
          The({ (b.go /\ ~FGt(b.ndot, 0)) =>
                    /\ ev'.ret
                    /\ stack' = Pop
                    /\ ev'.queries = 1 + SHADOW_SAMPLES * Len(scene_lights)
                    /\ retv' = [some |-> TRUE, v |-> mul(add(b.direct, ZeroVec), b.absorption)]
              : b \in {BounceOf(Top.f, rngPos)} }) ]_vars

\* C28 witness: below the roulette depth a specular bounce sampled on the
\* rough metal pointed below the surface, and the invocation has returned
\* its direct lighting.
C28_SpecularBounceBelowSurface ==
    /\ tgen = "renderer" /\ ev.op = "enter" /\ ev.branch = "opaque"
    /\ ev.f.depth < RUSSIAN_ROULETTE_DEPTH
    /\ ev.mat.metallic = ONE
    /\ ev.ret /\ retv.some
    /\ The({ b.go /\ FLe(b.ndot, 0) /\ retv.v = mul(add(b.direct, ZeroVec), b.absorption)
            : b \in {BounceOf(ev.f, [rngPos EXCEPT !.rng = @ - ev.rng])} })

(***************************************************************************)
(* Properties of the material parameters used in shading                   *)
(***************************************************************************)
\* roughness in [0.01, 1] and metallic in [0, 1]
InShadingRange(mat) ==
    /\ FGe(mat.roughness, 100) /\ FLe(mat.roughness, ONE)
    /\ FGe(mat.metallic, 0) /\ FLe(mat.metallic, ONE)

\* C25: the material whose roughness and metallic reach the BSDF evaluation
\* and sampling (d_term, g_term, sample_ggx_h) in a run of trace from its
\* first line, at an opaque hit and in the direct lighting at a media
\* scatter point, where it is the carried medium, has roughness in
\* [0.01, 1] and metallic in [0, 1], whatever the values stored in the
\* scene; so has every medium carried along the path.
C25_ShadingParametersClamped ==
    tgen = "renderer" =>
        /\ (ev.op = "enter" /\ ev.branch \in {"opaque", "scatter"}) => InShadingRange(ev.mat)
        /\ \A i \in 1..Len(stack) :
              stack[i].f.media.some => InShadingRange(stack[i].f.media.mat)

\* C25 witness: the direct lighting at a scatter point has evaluated the
\* BSDF (its result is not zero) with the carried medium, whose roughness
\* is 0.01 while the material stored in the scene has roughness 0.
C25_StoredRoughnessBelowRange ==
    /\ tgen = "renderer" /\ pc = "trace" /\ ev.op = "enter" /\ ev.branch = "scatter"
    /\ Top.st = "call" /\ Top.f = ev.call
    /\ ev.mat.roughness = 100
    /\ \E i \in 1..Len(scene_objs) :
          /\ scene_objs[i].material.roughness = 0
          /\ ev.mat = clamped(scene_objs[i].material)
    /\ stack[Len(stack) - 1].saved.direct # ZeroVec

(***************************************************************************)
(* Properties of the carried medium along a path from pixel_color          *)
(***************************************************************************)
\* C26: on every invocation of trace reachable from pixel_color, which
\* starts with no medium, the carried medium is none or a material with
\* volume_density > 0; so the scattering branch is entered only when a
\* medium is carried, and unwrapping the carried medium there finds one.
C26_CarriedMediumIsVolumetric ==
    tgen = "renderer" =>
        /\ \A i \in 1..Len(stack) :
              stack[i].f.media.some => FGt(stack[i].f.media.mat.volume_density, 0)
        /\ (ev.op = "enter" /\ ev.branch = "scatter") =>
              ev.f.media.some /\ FGt(ev.f.media.mat.volume_density, 0)

\* C26 witness: an invocation below the primary ray carries a medium and
\* has handled a scattering event in it.
C26_ScatteredInCarriedMedium ==
    /\ tgen = "renderer" /\ ev.op = "enter" /\ ev.branch = "scatter"
    /\ ev.f.depth > 0
    /\ ev.f.media.some
    /\ ev.call.media = ev.f.media

(***************************************************************************)
(* gpu_renderer.rs: the dispatch plan                                      *)
(***************************************************************************)
RECURSIVE SumSeq(_)
SumSeq(s) == IF s = <<>> THEN 0 ELSE s[1] + SumSeq(Tail(s))

\* C29: for every total of samples per pixel, width, height and workload,
\* the dispatch plan is computed without a division by zero or an unsigned
\* underflow, and the samples per pixel of the dispatches submitted sum to
\* the total the accumulated colour is divided by.
C29_DispatchesSumToTotal ==
    /\ gpu_panic \notin {"attempt to divide by zero", "attempt to subtract with overflow"}
    /\ pc = "image" => SumSeq(submitted) = divisor

(***************************************************************************)
(* gpu_renderer.rs: get_object_data                                        *)
(***************************************************************************)
\* The objects the loop has passed.
Passed == SubSeq(gpu_scene.objects, 1, obj_i)

IsSphere(o) == o.kind = "Sphere"

IsPlane(o) == o.kind = "Plane"

\* The triangles of the meshes of objs, in order, as buffer entries.
RECURSIVE TrianglesOf(_)
TrianglesOf(objs) ==
    IF objs = <<>> THEN <<>>
    ELSE (IF objs[1].kind = "Mesh"
          THEN [k \in 1..Len(objs[1].triangles) |-> TriangleData(objs[1].triangles[k], objs[1])]
          ELSE <<>>) \o TrianglesOf(Tail(objs))

\* The first n entries of s, or all of s.
Prefix(s, n) == SubSeq(s, 1, umin(n, Len(s)))

\* A buffer as returned: the entries copied, or one zeroed entry.
NonEmptyOf(buffer, count, zeroed) ==
    /\ Len(buffer) = umax(count, 1)
    /\ count = 0 => buffer = <<zeroed>>

\* C30: get_object_data copies the objects of each kind in order until the
\* cap of the kind (32 spheres, 32 planes, 8192 triangles) and drops the
\* rest; each count is the number of entries copied and at most the cap,
\* and each buffer returned is non-empty, one zeroed entry when the count
\* is 0.
C30_BuffersHoldFirstOfEachKind ==
    pc \in {"for_obj", "dispatch", "image"} =>
        /\ scount <= MAX_SPHERES /\ pcount <= MAX_PLANES /\ tcount <= MAX_TRIS
        /\ Prefix(gpu_spheres, scount)
               = Prefix([k \in 1..Len(SelectSeq(Passed, IsSphere)) |->
                            SphereData(SelectSeq(Passed, IsSphere)[k])], MAX_SPHERES)
        /\ scount = umin(Len(SelectSeq(Passed, IsSphere)), MAX_SPHERES)
        /\ Prefix(gpu_planes, pcount)
               = Prefix([k \in 1..Len(SelectSeq(Passed, IsPlane)) |->
                            PlaneData(SelectSeq(Passed, IsPlane)[k])], MAX_PLANES)
        /\ pcount = umin(Len(SelectSeq(Passed, IsPlane)), MAX_PLANES)
        /\ Prefix(gpu_tris, tcount) = Prefix(TrianglesOf(Passed), MAX_TRIS)
        /\ tcount = umin(Len(TrianglesOf(Passed)), MAX_TRIS)
        /\ pc # "for_obj" =>
              /\ obj_i = Len(gpu_scene.objects)
              /\ NonEmptyOf(gpu_spheres, scount, SphereData_zeroed)
              /\ NonEmptyOf(gpu_planes, pcount, PlaneData_zeroed)
              /\ NonEmptyOf(gpu_tris, tcount, TriangleData_zeroed)

\* C30 witness: the meshes hold more triangles than the cap, and the
\* buffers returned hold the first 8192 of them and the sphere and the
\* plane that follow the first mesh.
C30_TrianglesPastCapDropped ==
    /\ pc = "dispatch"
    /\ Len(TrianglesOf(gpu_scene.objects)) > MAX_TRIS
    /\ tcount = MAX_TRIS /\ Len(gpu_tris) = MAX_TRIS
    /\ gpu_tris[MAX_TRIS] = TrianglesOf(gpu_scene.objects)[MAX_TRIS]
    /\ scount = 1 /\ pcount = 1
=============================================================================
